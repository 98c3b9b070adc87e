\* Twice the four tabs of the activity screen.
SPECIFICATION FairSpec
CONSTANT NumberOfItems = 8
INVARIANTS TypeOK ScrollsAreBounded DisabledWhileScrolling SettledOnTap
PROPERTIES TouchesComeBack
