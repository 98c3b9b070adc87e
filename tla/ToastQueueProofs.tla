-------------------------- MODULE ToastQueueProofs --------------------------
(***************************************************************************)
(* Theorems about ToastQueue for any number of toasts.                     *)
(***************************************************************************)
EXTENDS ToastQueue, TLAPS, SequenceTheorems, FiniteSetTheorems

PostedBlock == [kind : {"start", "present", "cancel"}, toast : Toasts]

(* The blocks of a queue, and the order they keep: cancellations in the     *)
(* order of the toasts, and no view put up after it was cancelled or twice. *)
BlocksOf(q) == {q[k] : k \in 1 .. Len(q)}

InOrder(b, c) ==
  /\ b.kind = "cancel" /\ c.kind = "cancel" => b.toast < c.toast
  /\ c.kind = "present" /\ b.kind # "start" => b.toast # c.toast

Ordered(q) == \A j, k \in 1 .. Len(q) : j < k => InOrder(q[j], q[k])

LEMMA AppendBlock ==
  ASSUME NEW q \in Seq(PostedBlock), NEW b \in PostedBlock, Ordered(q),
         \A c \in BlocksOf(q) : InOrder(c, b)
  PROVE  /\ Append(q, b) \in Seq(PostedBlock)
         /\ Ordered(Append(q, b))
         /\ BlocksOf(Append(q, b)) = BlocksOf(q) \cup {b}
<1> DEFINE r == Append(q, b)
<1>1. /\ r \in Seq(PostedBlock) /\ Len(q) \in Nat /\ Len(r) = Len(q) + 1
      /\ \A k \in 1 .. Len(q) : r[k] = q[k]
      /\ r[Len(q) + 1] = b
  BY AppendProperties
<1> HIDE DEF r
<1>2. BlocksOf(r) = BlocksOf(q) \cup {b}
  BY <1>1 DEF BlocksOf
<1>3. Ordered(r)
  <2> SUFFICES ASSUME NEW j \in 1 .. Len(r), NEW k \in 1 .. Len(r), j < k
               PROVE  InOrder(r[j], r[k])
    BY DEF Ordered
  <2>1. j \in 1 .. Len(q) /\ r[j] = q[j]
    BY <1>1
  <2>2. CASE k \in 1 .. Len(q)
    <3>1. r[k] = q[k]
      BY <1>1, <2>2
    <3> QED
      BY Zenon, <2>1, <2>2, <3>1 DEF Ordered
  <2>3. CASE k = Len(q) + 1
    <3>1. r[k] = b /\ q[j] \in BlocksOf(q)
      BY <1>1, <2>1, <2>3 DEF BlocksOf
    <3> QED
      BY Zenon, <2>1, <3>1
  <2> QED
    BY <1>1, <2>2, <2>3
<1> QED
  BY Zenon, <1>1, <1>2, <1>3 DEF r

LEMMA TailBlock ==
  ASSUME NEW q \in Seq(PostedBlock), q # <<>>, Ordered(q)
  PROVE  /\ Tail(q) \in Seq(PostedBlock) /\ Head(q) \in PostedBlock
         /\ Ordered(Tail(q))
         /\ BlocksOf(q) = BlocksOf(Tail(q)) \cup {Head(q)}
         /\ \A c \in BlocksOf(Tail(q)) : InOrder(Head(q), c)
<1> DEFINE r == Tail(q)
<1>1. /\ r \in Seq(PostedBlock) /\ Head(q) \in PostedBlock /\ Len(q) \in Nat \ {0}
      /\ Len(r) = Len(q) - 1
      /\ \A k \in 1 .. Len(q) - 1 : r[k] = q[k + 1]
  BY HeadTailProperties
<1>2. Head(q) = q[1]
  OBVIOUS
<1> HIDE DEF r
<1>3. \A k \in 1 .. Len(r) : k + 1 \in 1 .. Len(q) /\ r[k] = q[k + 1] /\ 1 < k + 1
  BY <1>1
<1>4. BlocksOf(q) = BlocksOf(r) \cup {q[1]}
  <2>1. ASSUME NEW k \in 1 .. Len(q) PROVE q[k] \in BlocksOf(r) \cup {q[1]}
    <3>1. CASE k # 1
      <4>1. k - 1 \in 1 .. Len(r) /\ r[k - 1] = q[k]
        BY <1>1, <3>1
      <4> QED
        BY <4>1 DEF BlocksOf
    <3> QED
      BY <3>1
  <2>2. ASSUME NEW k \in 1 .. Len(r) PROVE r[k] \in BlocksOf(q)
    BY <1>3 DEF BlocksOf
  <2>3. q[1] \in BlocksOf(q)
    BY <1>1 DEF BlocksOf
  <2> QED
    BY Zenon, <2>1, <2>2, <2>3 DEF BlocksOf
<1>5. Ordered(r)
  <2> SUFFICES ASSUME NEW j \in 1 .. Len(r), NEW k \in 1 .. Len(r), j < k
               PROVE  InOrder(r[j], r[k])
    BY DEF Ordered
  <2>1. j + 1 < k + 1
    BY <1>1
  <2> QED
    BY Zenon, <1>3, <2>1 DEF Ordered
<1>6. ASSUME NEW c \in BlocksOf(r) PROVE InOrder(q[1], c)
  <2>1. PICK k \in 1 .. Len(r) : c = r[k]
    BY Zenon DEF BlocksOf
  <2>2. 1 \in 1 .. Len(q)
    BY <1>1
  <2> QED
    BY Zenon, <1>3, <2>1, <2>2 DEF Ordered
<1> QED
  BY Zenon, <1>1, <1>2, <1>4, <1>5, <1>6 DEF r

-----------------------------------------------------------------------------
Animations == {"none", "in", "wait", "out", "done"}

FlagTypes ==
  /\ onKeyboard \in SUBSET Toasts
  /\ keyWindow \in BOOLEAN /\ crashed \in BOOLEAN

DataTypes ==
  /\ created \in 0 .. MaxToasts
  /\ started \in SUBSET (1 .. created)
  /\ isCancelled \in SUBSET (1 .. created)
  /\ isFinished \in SUBSET (1 .. created)
  /\ isExecuting \in SUBSET (started \ isFinished)
  /\ mainQueue \in Seq(PostedBlock)
  /\ onWindow \in SUBSET Toasts
  /\ animation \in [Toasts -> Animations]

LEMMA SplitTypes == TypeOK <=> FlagTypes /\ DataTypes
BY Zenon DEF TypeOK, FlagTypes, DataTypes, PostedBlock, Animations

(* What a posted block says of its toast; every toast that is cancelled and *)
(* not finished has its block posted; at most the newest toast is neither;  *)
(* and the queue has started the first of its operations only.              *)
BlocksAgree ==
  \A b \in BlocksOf(mainQueue) :
    /\ b.kind = "start" => b.toast \in started
    /\ b.kind = "present" => b.toast \in isExecuting /\ animation[b.toast] = "none"
    /\ b.kind = "cancel" => b.toast \in isCancelled

CancelsPosted ==
  \A t \in isCancelled \ isFinished : Block("cancel", t) \in BlocksOf(mainQueue)

LiveIsNewest == Operations \ isCancelled \subseteq {created}

StartedIsFirst == \A t \in started \ isFinished : \A u \in Operations : t <= u

(* The views: a toast that has one is executing or finished, and a view     *)
(* that is not fading out is of a toast that has not finished.              *)
ViewsAgree ==
  /\ \A t \in Toasts : animation[t] # "none" => t \in isExecuting \cup isFinished
  /\ \A t \in onWindow : \/ animation[t] = "out"
                         \/ animation[t] \in {"in", "wait"} /\ t \notin isFinished

OperationsInv == LiveIsNewest /\ StartedIsFirst
QueueInv == BlocksAgree /\ Ordered(mainQueue) /\ CancelsPosted
ToastInv == DataTypes /\ OperationsInv /\ QueueInv /\ ViewsAgree

LEMMA ToastFacts ==
  ASSUME DataTypes
  PROVE  /\ MaxToasts \in Nat /\ created \in Nat /\ created <= MaxToasts
         /\ started \subseteq 1 .. created /\ isCancelled \subseteq 1 .. created
         /\ isFinished \subseteq 1 .. created /\ 1 .. created \subseteq Toasts
         /\ isExecuting \subseteq started /\ isExecuting \cap isFinished = {}
         /\ Operations = (1 .. created) \ isFinished
BY MaxToastsAssumption DEF DataTypes, Operations, Toasts

LEMMA ShowData ==
  Show => /\ created < MaxToasts /\ created' = created + 1
          /\ UNCHANGED <<started, isExecuting, isFinished, onWindow, animation>>
          /\ \/ \E t \in Operations : /\ t \notin isCancelled
                                      /\ isCancelled' = isCancelled \cup {t}
                                      /\ mainQueue' = Append(mainQueue, Block("cancel", t))
             \/ Operations \subseteq isCancelled /\ UNCHANGED <<isCancelled, mainQueue>>
BY Zenon DEF Show, IsCurrentToast, IsFirst, viewVars

LEMMA ShowKeeps == ToastInv /\ Show => ToastInv'
<1> SUFFICES ASSUME ToastInv, Show PROVE ToastInv'
  OBVIOUS
<1>0. DataTypes /\ OperationsInv /\ QueueInv /\ ViewsAgree
  BY Zenon DEF ToastInv
<1>1. /\ created < MaxToasts /\ created' = created + 1
      /\ started' = started /\ isExecuting' = isExecuting /\ isFinished' = isFinished
      /\ onWindow' = onWindow /\ animation' = animation
  BY Zenon, ShowData
<1>2. /\ 1 .. created \subseteq 1 .. created' /\ created' \in 0 .. MaxToasts
      /\ created + 1 \in 1 .. created'
      /\ Operations' = Operations \cup {created + 1}
  <2>1. 1 .. created' = (1 .. created) \cup {created + 1}
    BY <1>0, <1>1, ToastFacts
  <2>2. created + 1 \notin isFinished /\ created' \in 0 .. MaxToasts
    BY <1>0, <1>1, ToastFacts
  <2>3. Operations' = (1 .. created') \ isFinished'
    BY DEF Operations
  <2> QED
    BY <1>0, <1>1, <2>1, <2>2, <2>3, ToastFacts
<1>3. StartedIsFirst'
  <2>1. \A t \in started : t <= created + 1
    BY <1>0, ToastFacts
  <2> QED
    BY <1>0, <1>1, <1>2, <2>1 DEF OperationsInv, StartedIsFirst
<1>4. ViewsAgree'
  BY Zenon, <1>0, <1>1 DEF ViewsAgree
<1>5. CASE Operations \subseteq isCancelled /\ UNCHANGED <<isCancelled, mainQueue>>
  <2>1. LiveIsNewest'
    BY Zenon, <1>1, <1>2, <1>5 DEF LiveIsNewest
  <2>2. QueueInv'
    BY Zenon, <1>0, <1>1, <1>5 DEF QueueInv, BlocksAgree, CancelsPosted
  <2>3. DataTypes'
    BY Zenon, <1>0, <1>1, <1>2, <1>5 DEF DataTypes
  <2> QED
    BY Zenon, <1>3, <1>4, <2>1, <2>2, <2>3 DEF ToastInv, OperationsInv
<1>6. ASSUME NEW t \in Operations, t \notin isCancelled,
             isCancelled' = isCancelled \cup {t},
             mainQueue' = Append(mainQueue, Block("cancel", t))
      PROVE  ToastInv'
  <2>1. t = created /\ Operations \ isCancelled \subseteq {t}
    BY Zenon, <1>0, <1>6 DEF OperationsInv, LiveIsNewest
  <2>2. LiveIsNewest'
    BY Zenon, <1>1, <1>2, <1>6, <2>1 DEF LiveIsNewest
  <2>3. t \in 1 .. created /\ Block("cancel", t) \in PostedBlock
    BY <1>0, ToastFacts DEF Block, PostedBlock
  <2>4. \A c \in BlocksOf(mainQueue) : InOrder(c, Block("cancel", t))
    <3> SUFFICES ASSUME NEW c \in BlocksOf(mainQueue)
                 PROVE  InOrder(c, Block("cancel", t))
      OBVIOUS
    <3>1. c.kind = "cancel" => c.toast \in isCancelled
      BY Zenon, <1>0 DEF QueueInv, BlocksAgree
    <3>2. c.kind = "cancel" => c.toast < t
      BY <1>0, <1>6, <2>1, <3>1, ToastFacts
    <3> QED
      BY <3>2 DEF InOrder, Block
  <2>5. /\ mainQueue' \in Seq(PostedBlock) /\ Ordered(mainQueue')
        /\ BlocksOf(mainQueue') = BlocksOf(mainQueue) \cup {Block("cancel", t)}
    BY Zenon, <1>0, <1>6, <2>3, <2>4, AppendBlock DEF DataTypes, QueueInv
  <2>6. BlocksAgree'
    BY <1>0, <1>1, <1>6, <2>5 DEF QueueInv, BlocksAgree, Block
  <2>7. CancelsPosted'
    BY Zenon, <1>0, <1>1, <1>6, <2>5 DEF QueueInv, CancelsPosted
  <2>8. DataTypes'
    BY Zenon, <1>0, <1>1, <1>2, <1>6, <2>3, <2>5 DEF DataTypes
  <2> QED
    BY Zenon, <1>3, <1>4, <2>2, <2>5, <2>6, <2>7, <2>8 DEF ToastInv, OperationsInv, QueueInv
<1> QED
  BY Zenon, <1>5, <1>6, ShowData

LEMMA WorkerStartsKeeps ==
  ASSUME ToastInv, NEW t \in Toasts, WorkerStarts(t)
  PROVE  ToastInv'
<1>0. DataTypes /\ OperationsInv /\ QueueInv /\ ViewsAgree
  BY Zenon DEF ToastInv
<1>1. /\ IsFirst(t, Operations) /\ started' = started \cup {t}
      /\ mainQueue' = IF Runnable(t) THEN Append(mainQueue, Block("start", t)) ELSE mainQueue
      /\ created' = created /\ isCancelled' = isCancelled /\ isExecuting' = isExecuting
      /\ isFinished' = isFinished /\ onWindow' = onWindow /\ animation' = animation
  BY Zenon DEF WorkerStarts, viewVars
<1>2. t \in Operations /\ \A u \in Operations : t <= u
  BY Zenon, <1>1 DEF IsFirst
<1>3. t \in 1 .. created /\ Block("start", t) \in PostedBlock
  BY <1>0, <1>2, ToastFacts DEF Block, PostedBlock
<1>4. /\ mainQueue' \in Seq(PostedBlock) /\ Ordered(mainQueue')
      /\ BlocksOf(mainQueue) \subseteq BlocksOf(mainQueue')
      /\ BlocksOf(mainQueue') \subseteq BlocksOf(mainQueue) \cup {Block("start", t)}
  <2>1. \A c : InOrder(c, Block("start", t))
    BY DEF InOrder, Block
  <2>2. mainQueue \in Seq(PostedBlock) /\ Ordered(mainQueue)
    BY Zenon, <1>0 DEF DataTypes, QueueInv
  <2> QED
    BY Zenon, <1>1, <1>3, <2>1, <2>2, AppendBlock
<1>5. Operations' = Operations
  BY Zenon, <1>1 DEF Operations
<1>6. OperationsInv'
  BY Zenon, <1>0, <1>1, <1>2, <1>5 DEF OperationsInv, LiveIsNewest, StartedIsFirst
<1>7. BlocksAgree'
  BY <1>0, <1>1, <1>4 DEF QueueInv, BlocksAgree, Block
<1>8. CancelsPosted'
  BY Zenon, <1>0, <1>1, <1>4 DEF QueueInv, CancelsPosted
<1>9. ViewsAgree'
  BY Zenon, <1>0, <1>1 DEF ViewsAgree
<1>10. DataTypes'
  BY Zenon, <1>0, <1>1, <1>3, <1>4 DEF DataTypes
<1> QED
  BY Zenon, <1>4, <1>6, <1>7, <1>8, <1>9, <1>10 DEF ToastInv, QueueInv

-----------------------------------------------------------------------------
(* The blocks of the main queue. *)
LEMMA HeadFacts ==
  ASSUME ToastInv, mainQueue # <<>>
  PROVE  /\ Tail(mainQueue) \in Seq(PostedBlock) /\ Ordered(Tail(mainQueue))
         /\ Head(mainQueue) \in PostedBlock /\ Head(mainQueue).toast \in Toasts
         /\ Head(mainQueue) \in BlocksOf(mainQueue)
         /\ BlocksOf(mainQueue) = BlocksOf(Tail(mainQueue)) \cup {Head(mainQueue)}
         /\ \A c \in BlocksOf(Tail(mainQueue)) : InOrder(Head(mainQueue), c)
<1>1. mainQueue \in Seq(PostedBlock) /\ Ordered(mainQueue)
  BY Zenon DEF ToastInv, DataTypes, QueueInv
<1>2. /\ Tail(mainQueue) \in Seq(PostedBlock) /\ Head(mainQueue) \in PostedBlock
      /\ Ordered(Tail(mainQueue))
      /\ BlocksOf(mainQueue) = BlocksOf(Tail(mainQueue)) \cup {Head(mainQueue)}
      /\ \A c \in BlocksOf(Tail(mainQueue)) : InOrder(Head(mainQueue), c)
  BY <1>1, TailBlock
<1>3. \A b \in PostedBlock : b.toast \in Toasts
  BY DEF PostedBlock
<1> QED
  BY Zenon, <1>2, <1>3

LEMMA StartKeeps ==
  ASSUME ToastInv, mainQueue # <<>>, NEW t, Head(mainQueue).toast = t,
         Head(mainQueue).kind = "start", Start(t),
         UNCHANGED <<created, started, isCancelled>>
  PROVE  ToastInv'
<1>0. DataTypes /\ OperationsInv /\ QueueInv /\ ViewsAgree
  BY Zenon DEF ToastInv
<1>1. /\ created' = created /\ started' = started /\ isCancelled' = isCancelled
      /\ isFinished' = isFinished /\ onWindow' = onWindow /\ animation' = animation
  BY Zenon DEF Start, viewVars
<1>2. t \in started
  BY Zenon, <1>0, HeadFacts DEF QueueInv, BlocksAgree
<1>3. Operations' = Operations
  BY Zenon, <1>1 DEF Operations
<1>4. OperationsInv'
  BY Zenon, <1>0, <1>1, <1>3 DEF OperationsInv, LiveIsNewest, StartedIsFirst
<1>5. BlocksOf(mainQueue) = BlocksOf(Tail(mainQueue)) \cup {Head(mainQueue)}
  BY Zenon, HeadFacts
<1>6. \A u : Block("cancel", u) # Head(mainQueue)
  BY DEF Block
<1>7. CASE ~Runnable(t) /\ mainQueue' = Tail(mainQueue) /\ UNCHANGED isExecuting
  <2>1. QueueInv'
    BY Zenon, <1>0, <1>1, <1>5, <1>6, <1>7, HeadFacts DEF QueueInv, BlocksAgree, CancelsPosted
  <2>2. DataTypes'
    BY Zenon, <1>0, <1>1, <1>7, HeadFacts DEF DataTypes
  <2>3. ViewsAgree'
    BY Zenon, <1>0, <1>1, <1>7 DEF ViewsAgree
  <2> QED
    BY Zenon, <1>4, <2>1, <2>2, <2>3 DEF ToastInv
<1>8. CASE /\ Runnable(t) /\ isExecuting' = isExecuting \cup {t}
           /\ mainQueue' = Append(Tail(mainQueue), Block("present", t))
  <2>1. t \notin isFinished /\ t \notin isCancelled /\ t \notin isExecuting
    BY Zenon, <1>8 DEF Runnable
  <2>2. Block("present", t) \in PostedBlock
    BY HeadFacts DEF Block, PostedBlock
  <2>3. \A c \in BlocksOf(Tail(mainQueue)) : InOrder(c, Block("present", t))
    <3> SUFFICES ASSUME NEW c \in BlocksOf(Tail(mainQueue))
                 PROVE  InOrder(c, Block("present", t))
      OBVIOUS
    <3>1. c \in BlocksOf(mainQueue)
      BY Zenon, <1>5
    <3>2. \A b \in PostedBlock : b.kind \in {"start", "present", "cancel"}
      BY DEF PostedBlock
    <3>3. c \in PostedBlock
      BY HeadFacts DEF BlocksOf
    <3>4. c.kind # "start" => c.toast # t
      BY Zenon, <1>0, <2>1, <3>1, <3>2, <3>3 DEF QueueInv, BlocksAgree
    <3> QED
      BY <3>4 DEF InOrder, Block
  <2>4. /\ mainQueue' \in Seq(PostedBlock) /\ Ordered(mainQueue')
        /\ BlocksOf(mainQueue') = BlocksOf(Tail(mainQueue)) \cup {Block("present", t)}
    BY Zenon, <1>8, <2>2, <2>3, HeadFacts, AppendBlock
  <2>5. animation[t] = "none"
    BY Zenon, <1>0, <2>1, HeadFacts DEF ViewsAgree
  <2>v. ViewsAgree'
    BY Zenon, <1>0, <1>1, <1>8 DEF ViewsAgree
  <2>6. BlocksAgree'
    BY <1>0, <1>1, <1>5, <1>8, <2>4, <2>5 DEF QueueInv, BlocksAgree, Block
  <2>7. CancelsPosted'
    BY Zenon, <1>0, <1>1, <1>5, <1>6, <2>4 DEF QueueInv, CancelsPosted
  <2>8. DataTypes'
    BY Zenon, <1>0, <1>1, <1>2, <1>8, <2>1, <2>4 DEF DataTypes
  <2> QED
    BY Zenon, <1>4, <2>4, <2>6, <2>7, <2>8, <2>v DEF ToastInv, QueueInv
<1> QED
  BY Zenon, <1>7, <1>8 DEF Start

(* What a finish does to the operations. *)
LEMMA FinishKeeps ==
  ASSUME ToastInv, NEW t \in 1 .. created,
         isFinished' = isFinished \cup {t}, isExecuting' = isExecuting \ {t},
         UNCHANGED <<created, started, isCancelled>>
  PROVE  /\ Operations' = Operations \ {t}
         /\ OperationsInv'
         /\ isFinished' \in SUBSET (1 .. created')
         /\ isExecuting' \in SUBSET (started' \ isFinished')
<1>0. DataTypes /\ OperationsInv
  BY Zenon DEF ToastInv
<1>1. Operations' = Operations \ {t}
  BY DEF Operations
<1>2. OperationsInv'
  BY Zenon, <1>0, <1>1 DEF OperationsInv, LiveIsNewest, StartedIsFirst
<1>3. isFinished' \in SUBSET (1 .. created') /\ isExecuting' \in SUBSET (started' \ isFinished')
  BY Zenon, <1>0 DEF DataTypes
<1> QED
  BY <1>1, <1>2, <1>3

LEMMA CancelKeeps ==
  ASSUME ToastInv, mainQueue # <<>>, NEW t, Head(mainQueue).toast = t,
         Head(mainQueue).kind = "cancel", Cancel(t),
         UNCHANGED <<created, started, isCancelled>>
  PROVE  ToastInv'
<1>0. DataTypes /\ OperationsInv /\ QueueInv /\ ViewsAgree
  BY Zenon DEF ToastInv
<1>1. /\ created' = created /\ started' = started /\ isCancelled' = isCancelled
      /\ isFinished' = isFinished \cup {t} /\ isExecuting' = isExecuting \ {t}
      /\ mainQueue' = Tail(mainQueue)
      /\ onWindow' = onWindow \ {t} /\ animation' = animation
  BY Zenon DEF Cancel, Finish
<1>2. t \in 1 .. created
  BY Zenon, <1>0, HeadFacts DEF QueueInv, BlocksAgree, DataTypes
<1>3. BlocksOf(mainQueue) = BlocksOf(mainQueue') \cup {Head(mainQueue)}
  BY Zenon, <1>1, HeadFacts
<1>4. /\ OperationsInv' /\ isFinished' \in SUBSET (1 .. created')
      /\ isExecuting' \in SUBSET (started' \ isFinished')
  BY Zenon, <1>1, <1>2, FinishKeeps
<1>5. ViewsAgree'
  BY Zenon, <1>0, <1>1 DEF ViewsAgree
<1>6. BlocksAgree'
  <2> SUFFICES ASSUME NEW b \in BlocksOf(mainQueue')
               PROVE  /\ b.kind = "start" => b.toast \in started
                      /\ b.kind = "present"
                           => b.toast \in isExecuting \ {t} /\ animation[b.toast] = "none"
                      /\ b.kind = "cancel" => b.toast \in isCancelled
    BY Zenon, <1>1 DEF BlocksAgree
  <2>1. InOrder(Head(mainQueue), b) /\ b \in BlocksOf(mainQueue)
    BY Zenon, <1>1, <1>3, HeadFacts
  <2>2. b.kind = "present" => b.toast # t
    BY <2>1 DEF InOrder
  <2> QED
    BY Zenon, <1>0, <2>1, <2>2 DEF QueueInv, BlocksAgree
<1>7. CancelsPosted'
  <2> SUFFICES ASSUME NEW u \in isCancelled \ isFinished, u # t
               PROVE  Block("cancel", u) \in BlocksOf(mainQueue')
    BY Zenon, <1>1 DEF CancelsPosted
  <2>1. Block("cancel", u) # Head(mainQueue)
    BY DEF Block
  <2> QED
    BY Zenon, <1>0, <1>3, <2>1 DEF QueueInv, CancelsPosted
<1>8. Ordered(mainQueue') /\ mainQueue' \in Seq(PostedBlock)
  BY Zenon, <1>1, HeadFacts
<1>9. DataTypes'
  BY Zenon, <1>0, <1>1, <1>4, <1>8 DEF DataTypes
<1> QED
  BY Zenon, <1>4, <1>5, <1>6, <1>7, <1>8, <1>9 DEF ToastInv, QueueInv

LEMMA PresentKeeps ==
  ASSUME ToastInv, mainQueue # <<>>, NEW t, Head(mainQueue).toast = t,
         Head(mainQueue).kind = "present", Present(t),
         UNCHANGED <<created, started, isCancelled>>
  PROVE  ToastInv'
<1>0. DataTypes /\ OperationsInv /\ QueueInv /\ ViewsAgree
  BY Zenon DEF ToastInv
<1>1. /\ created' = created /\ started' = started /\ isCancelled' = isCancelled
      /\ isFinished' = isFinished /\ isExecuting' = isExecuting
      /\ mainQueue' = Tail(mainQueue)
      /\ \/ onWindow' = onWindow \cup {t} /\ animation' = [animation EXCEPT ![t] = "in"]
         \/ onWindow' = onWindow /\ animation' = animation
  BY Zenon DEF Present, viewVars
<1>2. t \in isExecuting /\ t \notin isFinished /\ t \in Toasts
  BY Zenon, <1>0, HeadFacts DEF QueueInv, BlocksAgree, DataTypes
<1>3. BlocksOf(mainQueue) = BlocksOf(mainQueue') \cup {Head(mainQueue)}
  BY Zenon, <1>1, HeadFacts
<1>4. OperationsInv'
  BY Zenon, <1>0, <1>1 DEF OperationsInv, LiveIsNewest, StartedIsFirst, Operations
<1>5. CancelsPosted'
  <2>1. \A u : Block("cancel", u) # Head(mainQueue)
    BY DEF Block
  <2> QED
    BY Zenon, <1>0, <1>1, <1>3, <2>1 DEF QueueInv, CancelsPosted
<1>6. Ordered(mainQueue') /\ mainQueue' \in Seq(PostedBlock)
  BY Zenon, <1>1, HeadFacts
<1>7. /\ animation \in [Toasts -> Animations] /\ onWindow \in SUBSET Toasts
      /\ animation' \in [Toasts -> Animations] /\ onWindow' \in SUBSET Toasts
      /\ \A u \in Toasts : u # t => animation'[u] = animation[u]
      /\ animation'[t] \in {animation[t], "in"}
  <2>1. animation \in [Toasts -> Animations] /\ onWindow \in SUBSET Toasts
    BY Zenon, <1>0 DEF DataTypes
  <2> QED
    BY <1>1, <1>2, <2>1 DEF Animations
<1>8. BlocksAgree'
  <2> SUFFICES ASSUME NEW b \in BlocksOf(mainQueue')
               PROVE  /\ b.kind = "start" => b.toast \in started
                      /\ b.kind = "present"
                           => b.toast \in isExecuting /\ animation'[b.toast] = "none"
                      /\ b.kind = "cancel" => b.toast \in isCancelled
    BY Zenon, <1>1 DEF BlocksAgree
  <2>1. InOrder(Head(mainQueue), b) /\ b \in BlocksOf(mainQueue)
    BY Zenon, <1>1, <1>3, HeadFacts
  <2>2. b.kind = "present" => b.toast # t
    BY <2>1 DEF InOrder
  <2>3. b.toast \in Toasts
    <3>1. b \in PostedBlock
      BY <1>6 DEF BlocksOf
    <3> QED
      BY <3>1 DEF PostedBlock
  <2>4. /\ b.kind = "start" => b.toast \in started
        /\ b.kind = "present" => b.toast \in isExecuting /\ animation[b.toast] = "none"
        /\ b.kind = "cancel" => b.toast \in isCancelled
    BY Zenon, <1>0, <2>1 DEF QueueInv, BlocksAgree
  <2> QED
    BY Zenon, <1>7, <2>2, <2>3, <2>4
<1>9. ViewsAgree'
  <2>1. \A u \in Toasts : animation'[u] # "none" => u \in isExecuting' \cup isFinished'
    BY Zenon, <1>0, <1>1, <1>2, <1>7 DEF ViewsAgree
  <2>2. ASSUME NEW u \in onWindow'
        PROVE  \/ animation'[u] = "out"
               \/ animation'[u] \in {"in", "wait"} /\ u \notin isFinished'
    <3>1. CASE u # t
      BY Zenon, <1>0, <1>1, <1>7, <2>2, <3>1 DEF ViewsAgree
    <3>2. CASE u = t /\ t \in onWindow /\ animation' = animation
      BY Zenon, <1>0, <1>1, <3>2 DEF ViewsAgree
    <3>3. CASE u = t /\ animation' = [animation EXCEPT ![t] = "in"]
      <4>1. animation'[t] = "in"
        BY <1>2, <1>7, <3>3
      <4> QED
        BY Zenon, <1>1, <1>2, <3>3, <4>1
    <3> QED
      BY Zenon, <1>1, <2>2, <3>1, <3>2, <3>3
  <2> QED
    BY Zenon, <2>1, <2>2 DEF ViewsAgree
<1>10. DataTypes'
  BY Zenon, <1>0, <1>1, <1>6, <1>7 DEF DataTypes
<1> QED
  BY Zenon, <1>4, <1>5, <1>6, <1>8, <1>9, <1>10 DEF ToastInv, QueueInv

(* The animations change a toast that has a view, and at most finish it. *)
LEMMA AnimationData ==
  ASSUME NEW t, AnimationEnds(t)
  PROVE  /\ UNCHANGED <<created, started, isCancelled, mainQueue>>
         /\ \/ /\ animation[t] = "in" /\ animation' = [animation EXCEPT ![t] = "wait"]
               /\ UNCHANGED <<isExecuting, isFinished, onWindow>>
            \/ /\ animation[t] = "wait" /\ animation' = [animation EXCEPT ![t] = "out"]
               /\ isFinished' = isFinished \cup {t} /\ isExecuting' = isExecuting \ {t}
               /\ UNCHANGED onWindow
            \/ /\ animation[t] = "out" /\ animation' = [animation EXCEPT ![t] = "done"]
               /\ onWindow' = onWindow \ {t}
               /\ UNCHANGED <<isExecuting, isFinished>>
BY Zenon DEF AnimationEnds, FadeInEnds, WaitEnds, FadeOutEnds, Finish

LEMMA AnimationKeeps ==
  ASSUME ToastInv, NEW t \in Toasts, AnimationEnds(t)
  PROVE  ToastInv'
<1>0. DataTypes /\ OperationsInv /\ QueueInv /\ ViewsAgree
  BY Zenon DEF ToastInv
<1>1. /\ created' = created /\ started' = started /\ isCancelled' = isCancelled
      /\ mainQueue' = mainQueue
  BY Zenon, AnimationData
<1>2. PICK a \in {"wait", "out", "done"} :
        /\ animation' = [animation EXCEPT ![t] = a]
        /\ a = "wait" => /\ animation[t] = "in" /\ isExecuting' = isExecuting
                         /\ isFinished' = isFinished /\ onWindow' = onWindow
        /\ a = "out" => /\ animation[t] = "wait" /\ isExecuting' = isExecuting \ {t}
                        /\ isFinished' = isFinished \cup {t} /\ onWindow' = onWindow
        /\ a = "done" => /\ animation[t] = "out" /\ isExecuting' = isExecuting
                         /\ isFinished' = isFinished /\ onWindow' = onWindow \ {t}
  BY Zenon, AnimationData
<1>3. animation[t] # "none" /\ t \in isExecuting \cup isFinished
  BY Zenon, <1>0, <1>2 DEF ViewsAgree
<1>4. t \in 1 .. created
  BY <1>0, <1>3, ToastFacts
<1>5. /\ animation' \in [Toasts -> Animations] /\ animation'[t] = a
      /\ \A u \in Toasts : u # t => animation'[u] = animation[u]
  <2>1. animation \in [Toasts -> Animations] /\ a \in Animations
    BY <1>0 DEF DataTypes, Animations
  <2> QED
    BY <1>2, <2>1
<1>6. /\ OperationsInv' /\ isFinished' \in SUBSET (1 .. created')
      /\ isExecuting' \in SUBSET (started' \ isFinished')
  <2>1. CASE a = "out"
    BY Zenon, <1>1, <1>2, <1>4, <2>1, FinishKeeps
  <2>2. CASE a # "out"
    <3>1. isExecuting' = isExecuting /\ isFinished' = isFinished
      BY Zenon, <1>2, <2>2
    <3> QED
      BY Zenon, <1>0, <1>1, <3>1
         DEF DataTypes, OperationsInv, LiveIsNewest, StartedIsFirst, Operations
  <2> QED
    BY <2>1, <2>2
<1>7. /\ isFinished \subseteq isFinished' /\ isFinished' \subseteq isFinished \cup {t}
      /\ isExecuting \subseteq isExecuting' \cup {t}
      /\ isExecuting \cup isFinished \subseteq isExecuting' \cup isFinished'
      /\ onWindow' \subseteq onWindow
  BY Zenon, <1>2
<1>8. QueueInv'
  <2>1. BlocksAgree'
    <3> SUFFICES ASSUME NEW b \in BlocksOf(mainQueue)
                 PROVE  /\ b.kind = "start" => b.toast \in started
                        /\ b.kind = "present"
                             => b.toast \in isExecuting' /\ animation'[b.toast] = "none"
                        /\ b.kind = "cancel" => b.toast \in isCancelled
      BY Zenon, <1>1 DEF BlocksAgree
    <3>1. /\ b.kind = "start" => b.toast \in started
          /\ b.kind = "present" => b.toast \in isExecuting /\ animation[b.toast] = "none"
          /\ b.kind = "cancel" => b.toast \in isCancelled
      BY Zenon, <1>0 DEF QueueInv, BlocksAgree
    <3>2. b.toast \in Toasts
      <4>1. b \in PostedBlock
        BY <1>0 DEF DataTypes, BlocksOf
      <4> QED
        BY <4>1 DEF PostedBlock
    <3> QED
      BY Zenon, <1>3, <1>5, <1>7, <3>1, <3>2
  <2> QED
    BY Zenon, <1>0, <1>1, <1>7, <2>1 DEF QueueInv, CancelsPosted
<1>9. ViewsAgree'
  <2>1. \A u \in Toasts : animation'[u] # "none" => u \in isExecuting' \cup isFinished'
    BY Zenon, <1>0, <1>3, <1>5, <1>7 DEF ViewsAgree
  <2>2. ASSUME NEW u \in onWindow'
        PROVE  \/ animation'[u] = "out"
               \/ animation'[u] \in {"in", "wait"} /\ u \notin isFinished'
    <3>1. u \in onWindow /\ u \in Toasts
      BY Zenon, <1>0, <1>7, <2>2 DEF DataTypes
    <3>2. CASE u # t
      BY Zenon, <1>0, <1>5, <1>7, <3>1, <3>2 DEF ViewsAgree
    <3>3. CASE u = t
      <4>1. a # "done"
        BY Zenon, <1>2, <2>2, <3>3
      <4>2. a = "wait" => t \notin isFinished'
        BY <1>0, <1>2, <3>1, <3>3 DEF ViewsAgree
      <4> QED
        BY Zenon, <1>2, <1>5, <3>3, <4>1, <4>2
    <3> QED
      BY <3>2, <3>3
  <2> QED
    BY Zenon, <2>1, <2>2 DEF ViewsAgree
<1>10. DataTypes'
  <2>1. onWindow' \in SUBSET Toasts
    BY Zenon, <1>0, <1>7 DEF DataTypes
  <2> QED
    BY Zenon, <1>0, <1>1, <1>5, <1>6, <2>1 DEF DataTypes
<1> QED
  BY Zenon, <1>6, <1>8, <1>9, <1>10 DEF ToastInv

-----------------------------------------------------------------------------
LEMMA RunData ==
  ASSUME MainQueueRuns
  PROVE  /\ mainQueue # <<>> /\ UNCHANGED <<created, started, isCancelled>>
         /\ \/ Head(mainQueue).kind = "start" /\ Start(Head(mainQueue).toast)
            \/ Head(mainQueue).kind = "present" /\ Present(Head(mainQueue).toast)
            \/ Head(mainQueue).kind = "cancel" /\ Cancel(Head(mainQueue).toast)
BY Zenon DEF MainQueueRuns

LEMMA ToastInductive == ToastInv /\ [Next]_vars => ToastInv'
<1> SUFFICES ASSUME ToastInv, [Next]_vars PROVE ToastInv'
  OBVIOUS
<1>1. CASE MainQueueRuns
  BY Zenon, <1>1, RunData, StartKeeps, PresentKeeps, CancelKeeps
<1>2. CASE KeyWindowChanges \/ UNCHANGED vars
  <2>1. UNCHANGED <<created, operationVars, mainQueue, viewVars>>
    BY Zenon, <1>2 DEF KeyWindowChanges, vars
  <2>2. /\ created' = created /\ started' = started /\ isCancelled' = isCancelled
        /\ isExecuting' = isExecuting /\ isFinished' = isFinished
        /\ mainQueue' = mainQueue /\ onWindow' = onWindow /\ animation' = animation
    BY Zenon, <2>1 DEF operationVars, viewVars
  <2> QED
    BY Zenon, <2>2 DEF ToastInv, DataTypes, OperationsInv, LiveIsNewest, StartedIsFirst,
       Operations, QueueInv, BlocksAgree, CancelsPosted, ViewsAgree
<1> QED
  BY Zenon, <1>1, <1>2, ShowKeeps, WorkerStartsKeeps, AnimationKeeps DEF Next

LEMMA FlagsInductive == FlagTypes /\ DataTypes /\ [Next]_vars => FlagTypes'
<1> SUFFICES ASSUME FlagTypes, DataTypes, [Next]_vars PROVE FlagTypes'
  OBVIOUS
<1>1. CASE Show
  <2>1. created + 1 \in Toasts
    <3>1. created < MaxToasts
      BY Zenon, <1>1, ShowData
    <3> QED
      BY <3>1, ToastFacts DEF Toasts
  <2>2. onKeyboard' \in {onKeyboard, onKeyboard \cup {created + 1}} /\ UNCHANGED <<keyWindow, crashed>>
    BY Zenon, <1>1 DEF Show
  <2> QED
    BY Zenon, <2>1, <2>2 DEF FlagTypes
<1>2. CASE MainQueueRuns
  BY Zenon, <1>2 DEF FlagTypes, MainQueueRuns, Start, Present, Cancel
<1>3. ASSUME NEW t \in Toasts, WorkerStarts(t) \/ AnimationEnds(t)
      PROVE  FlagTypes'
  BY Zenon, <1>3 DEF FlagTypes, WorkerStarts, AnimationEnds
<1>4. CASE KeyWindowChanges \/ UNCHANGED vars
  BY Zenon, <1>4 DEF FlagTypes, KeyWindowChanges, vars
<1> QED
  BY Zenon, <1>1, <1>2, <1>3, <1>4 DEF Next

LEMMA ToastInit == Init => ToastInv /\ FlagTypes
<1> SUFFICES ASSUME Init PROVE ToastInv /\ FlagTypes
  OBVIOUS
<1>1. /\ created = 0 /\ started = {} /\ isCancelled = {} /\ isFinished = {}
      /\ isExecuting = {} /\ mainQueue = <<>> /\ onWindow = {}
      /\ animation = [t \in Toasts |-> "none"] /\ onKeyboard = {}
      /\ keyWindow = TRUE /\ crashed = FALSE
  BY Zenon DEF Init
<1>2. /\ mainQueue \in Seq(PostedBlock) /\ Len(mainQueue) = 0
      /\ created \in 0 .. MaxToasts
      /\ animation \in [Toasts -> Animations] /\ \A t \in Toasts : animation[t] = "none"
  BY <1>1, MaxToastsAssumption DEF Animations
<1>3. BlocksOf(mainQueue) = {} /\ Ordered(mainQueue)
  BY <1>2 DEF BlocksOf, Ordered
<1>4. Operations = {}
  BY <1>1 DEF Operations
<1>5. DataTypes
  BY Zenon, <1>1, <1>2 DEF DataTypes
<1>6. OperationsInv /\ QueueInv /\ ViewsAgree
  BY Zenon, <1>1, <1>2, <1>3, <1>4
     DEF OperationsInv, LiveIsNewest, StartedIsFirst, QueueInv, BlocksAgree, CancelsPosted,
         ViewsAgree
<1> QED
  BY Zenon, <1>1, <1>5, <1>6 DEF ToastInv, FlagTypes

LEMMA ToastAlways == Spec => [](ToastInv /\ FlagTypes)
<1>1. ToastInv /\ FlagTypes /\ [Next]_vars => (ToastInv /\ FlagTypes)'
  BY Zenon, ToastInductive, FlagsInductive DEF ToastInv
<1> QED
  BY <1>1, ToastInit, PTL DEF Spec

(* The types of the operations, the posted blocks and the views. *)
THEOREM TypeCorrect == Spec => []TypeOK
<1>1. ToastInv /\ FlagTypes => TypeOK
  BY Zenon, SplitTypes DEF ToastInv
<1> QED
  BY <1>1, ToastAlways, PTL

(* At most one toast is neither cancelled nor finished. *)
THEOREM AtMostOneLive == Spec => []OneLiveToast
<1>1. ToastInv => OneLiveToast
  <2> SUFFICES ASSUME ToastInv PROVE OneLiveToast
    OBVIOUS
  <2>1. Operations \ isCancelled \in SUBSET {created}
    BY Zenon DEF ToastInv, OperationsInv, LiveIsNewest
  <2>2. IsFiniteSet({created}) /\ Cardinality({created}) = 1
    BY FS_Singleton
  <2>3. Cardinality(Operations \ isCancelled) <= Cardinality({created})
    BY Zenon, <2>1, <2>2, FS_Subset
  <2> QED
    BY <2>2, <2>3 DEF OneLiveToast
<1> QED
  BY <1>1, ToastAlways, PTL

(* A toast that was cancelled and has finished is off the window for good,  *)
(* or fading out.                                                           *)
THEOREM CancelledIsGone == Spec => []CancelledStaysGone
<1>1. ToastInv => CancelledStaysGone
  BY Zenon DEF ToastInv, ViewsAgree, CancelledStaysGone
<1> QED
  BY <1>1, ToastAlways, PTL

-----------------------------------------------------------------------------
(* The toasts as a serial display. *)
Waiting == {t \in Operations : animation[t] = "none"}
Showing == {t \in onWindow : animation[t] \in {"in", "wait"}}

DisplayStep == [Display!Next]_(Display!displayVars)

LEMMA Stutters == UNCHANGED <<created, Waiting, Showing>> => DisplayStep
BY Zenon DEF DisplayStep, Display!displayVars, Waiting, Showing

LEMMA Requests ==
  created' = created + 1 /\ Waiting' = Waiting \cup {created + 1} /\ Showing' = Showing
    => DisplayStep
BY Zenon DEF DisplayStep, Display!Next, Display!Request, Waiting, Showing

LEMMA TakesNext ==
  ASSUME NEW t \in Waiting, \A u \in Waiting : t <= u, created' = created,
         Waiting' = Waiting \ {t},
         Showing' = Showing \/ (Showing = {} /\ Showing' = Showing \cup {t})
  PROVE  DisplayStep
BY Zenon DEF DisplayStep, Display!Next, Display!ShowNext, Display!GiveUp, Display!IsNext,
   Waiting, Showing

LEMMA TakesAway ==
  ASSUME NEW t \in Showing, created' = created, Waiting' = Waiting, Showing' = Showing \ {t}
  PROVE  DisplayStep
BY Zenon DEF DisplayStep, Display!Next, Display!TakeAway, Waiting, Showing

LEMMA ShowImplements == ToastInv /\ Show => DisplayStep
<1> SUFFICES ASSUME ToastInv, Show PROVE DisplayStep
  OBVIOUS
<1>0. DataTypes /\ ViewsAgree /\ MaxToasts \in Nat
  BY Zenon, MaxToastsAssumption DEF ToastInv
<1>1. /\ created < MaxToasts /\ created' = created + 1
      /\ isFinished' = isFinished /\ onWindow' = onWindow /\ animation' = animation
  BY Zenon, ShowData
<1>2. /\ created + 1 \in Toasts /\ created + 1 \notin isExecuting \cup isFinished
      /\ 1 .. created' = (1 .. created) \cup {created + 1}
  BY <1>0, <1>1, ToastFacts DEF Toasts
<1>3. animation[created + 1] = "none"
  BY Zenon, <1>0, <1>2 DEF ViewsAgree
<1>4. Waiting' = Waiting \cup {created + 1}
  BY <1>1, <1>2, <1>3 DEF Waiting, Operations
<1>5. Showing' = Showing
  BY Zenon, <1>1 DEF Showing
<1> QED
  BY Zenon, <1>1, <1>4, <1>5, Requests

LEMMA PresentImplements ==
  ASSUME ToastInv, mainQueue # <<>>, NEW t, Head(mainQueue).toast = t,
         Head(mainQueue).kind = "present", Present(t), UNCHANGED created
  PROVE  DisplayStep
<1>0. DataTypes /\ OperationsInv /\ QueueInv /\ ViewsAgree
  BY Zenon DEF ToastInv
<1>1. /\ isFinished' = isFinished /\ isExecuting' = isExecuting
      /\ \/ onWindow' = onWindow \cup {t} /\ animation' = [animation EXCEPT ![t] = "in"]
         \/ onWindow' = onWindow /\ animation' = animation
  BY Zenon DEF Present, viewVars
<1>2. /\ t \in isExecuting /\ animation[t] = "none" /\ t \in Toasts
      /\ t \in started /\ t \notin isFinished
  BY Zenon, <1>0, HeadFacts DEF QueueInv, BlocksAgree, DataTypes
<1>3. t \in Operations /\ \A u \in Operations : t <= u
  <2>1. t \in Operations
    BY <1>0, <1>2, ToastFacts
  <2> QED
    BY Zenon, <1>0, <1>2, <2>1 DEF OperationsInv, StartedIsFirst
<1>4. t \in Waiting /\ \A u \in Waiting : t <= u
  BY Zenon, <1>2, <1>3 DEF Waiting
<1>5. Operations' = Operations
  BY Zenon, <1>1 DEF Operations
<1>6. CASE onWindow' = onWindow /\ animation' = animation
  BY Zenon, <1>5, <1>6, Stutters DEF Waiting, Showing
<1>7. CASE onWindow' = onWindow \cup {t} /\ animation' = [animation EXCEPT ![t] = "in"]
  <2>1. /\ animation'[t] = "in" /\ Operations \subseteq Toasts /\ onWindow \subseteq Toasts
        /\ \A u \in Toasts : u # t => animation'[u] = animation[u]
    <3>1. animation \in [Toasts -> Animations] /\ onWindow \subseteq Toasts
      BY Zenon, <1>0 DEF DataTypes
    <3>2. Operations \subseteq Toasts
      BY <1>0, ToastFacts
    <3> QED
      BY <1>2, <1>7, <3>1, <3>2
  <2>2. Showing = {}
    <3> SUFFICES ASSUME NEW u \in Showing PROVE FALSE
      BY Zenon
    <3>1. /\ u \in onWindow /\ u \in Toasts /\ animation[u] \in {"in", "wait"}
          /\ animation[u] # "none" /\ animation[u] # "out"
      BY <2>1 DEF Showing
    <3>2. u \notin isFinished /\ u \in isExecuting
      BY Zenon, <1>0, <3>1 DEF ViewsAgree
    <3>3. u \in started \ isFinished /\ u \in Operations
      BY <1>0, <3>2, ToastFacts
    <3>4. u <= t /\ t <= u /\ t \in Nat /\ u \in Nat
      BY <1>0, <1>2, <1>3, <3>1, <3>3 DEF OperationsInv, StartedIsFirst, Toasts
    <3>5. u = t
      BY <3>4
    <3> QED
      BY Zenon, <1>2, <3>1, <3>5
  <2>3. Waiting' = Waiting \ {t}
    BY Zenon, <1>5, <2>1 DEF Waiting
  <2>4. Showing' = Showing \cup {t}
    BY Zenon, <1>7, <2>1 DEF Showing
  <2> QED
    BY Zenon, <1>4, <2>2, <2>3, <2>4, TakesNext
<1> QED
  BY <1>1, <1>6, <1>7

LEMMA CancelImplements ==
  ASSUME ToastInv, mainQueue # <<>>, NEW t, Head(mainQueue).toast = t,
         Head(mainQueue).kind = "cancel", Cancel(t), UNCHANGED created
  PROVE  DisplayStep
<1>0. DataTypes /\ OperationsInv /\ QueueInv /\ ViewsAgree
  BY Zenon DEF ToastInv
<1>1. /\ isFinished' = isFinished \cup {t} /\ onWindow' = onWindow \ {t}
      /\ animation' = animation
  BY Zenon DEF Cancel, Finish
<1>2. Operations' = Operations \ {t}
  BY Zenon, <1>1 DEF Operations
<1>3. Waiting' = Waiting \ {t} /\ Showing' = Showing \ {t}
  BY Zenon, <1>1, <1>2 DEF Waiting, Showing
<1>4. t \in Waiting => t \notin Showing
  BY DEF Waiting, Showing
<1>5. CASE t \in Waiting
  <2>1. ASSUME NEW u \in Operations PROVE t <= u
    <3>1. /\ t \in Nat /\ u \in Nat /\ t \in 1 .. created /\ u \in 1 .. created
          /\ u \notin isFinished
      BY <1>0, <1>5, ToastFacts DEF Waiting
    <3>2. CASE u \in isCancelled
      <4>1. Block("cancel", u) \in BlocksOf(mainQueue)
        BY Zenon, <1>0, <3>1, <3>2 DEF QueueInv, CancelsPosted
      <4>2. \/ Block("cancel", u) = Head(mainQueue)
            \/ InOrder(Head(mainQueue), Block("cancel", u))
        BY Zenon, <4>1, HeadFacts
      <4>3. Block("cancel", u).toast = u /\ Block("cancel", u).kind = "cancel"
        BY DEF Block
      <4>4. u = t \/ t < u
        BY Zenon, <4>2, <4>3 DEF InOrder
      <4> QED
        BY <3>1, <4>4
    <3>3. CASE u \notin isCancelled
      <4>1. u = created
        BY Zenon, <1>0, <3>3 DEF OperationsInv, LiveIsNewest
      <4> QED
        BY <1>0, <3>1, <4>1, ToastFacts
    <3> QED
      BY <3>2, <3>3
  <2>2. \A u \in Waiting : t <= u
    BY Zenon, <2>1 DEF Waiting
  <2>3. Showing' = Showing
    BY Zenon, <1>3, <1>4, <1>5
  <2> QED
    BY Zenon, <1>3, <1>5, <2>2, <2>3, TakesNext
<1>6. CASE t \in Showing
  <2>1. Waiting' = Waiting
    BY Zenon, <1>3, <1>4, <1>6
  <2> QED
    BY Zenon, <1>3, <1>6, <2>1, TakesAway
<1>7. CASE t \notin Waiting /\ t \notin Showing
  <2>1. Waiting' = Waiting /\ Showing' = Showing
    BY Zenon, <1>3, <1>7
  <2> QED
    BY Zenon, <2>1, Stutters
<1> QED
  BY <1>5, <1>6, <1>7

LEMMA AnimationImplements ==
  ASSUME ToastInv, NEW t \in Toasts, AnimationEnds(t)
  PROVE  DisplayStep
<1>0. DataTypes /\ ViewsAgree
  BY Zenon DEF ToastInv
<1>1. animation \in [Toasts -> Animations] /\ onWindow \subseteq Toasts /\ Operations \subseteq Toasts
  <2>1. Operations \subseteq Toasts
    BY <1>0, ToastFacts
  <2> QED
    BY Zenon, <1>0, <2>1 DEF DataTypes
<1>2. created' = created
  BY Zenon, AnimationData
<1>3. CASE /\ animation[t] = "in" /\ animation' = [animation EXCEPT ![t] = "wait"]
           /\ UNCHANGED <<isExecuting, isFinished, onWindow>>
  <2>1. Waiting' = Waiting
    BY <1>1, <1>2, <1>3 DEF Waiting, Operations
  <2>2. Showing' = Showing
    BY <1>1, <1>3 DEF Showing
  <2> QED
    BY Zenon, <1>2, <2>1, <2>2, Stutters
<1>4. CASE /\ animation[t] = "wait" /\ animation' = [animation EXCEPT ![t] = "out"]
           /\ isFinished' = isFinished \cup {t} /\ isExecuting' = isExecuting \ {t}
           /\ UNCHANGED onWindow
  <2>1. Waiting' = Waiting
    BY <1>1, <1>2, <1>4 DEF Waiting, Operations
  <2>2. Showing' = Showing \ {t}
    BY <1>1, <1>4 DEF Showing
  <2>3. t \notin Showing => Showing' = Showing
    BY Zenon, <2>2
  <2> QED
    BY Zenon, <1>2, <2>1, <2>2, <2>3, Stutters, TakesAway
<1>5. CASE /\ animation[t] = "out" /\ animation' = [animation EXCEPT ![t] = "done"]
           /\ onWindow' = onWindow \ {t}
           /\ UNCHANGED <<isExecuting, isFinished>>
  <2>1. Waiting' = Waiting
    BY <1>1, <1>2, <1>5 DEF Waiting, Operations
  <2>2. Showing' = Showing
    BY <1>1, <1>5 DEF Showing
  <2> QED
    BY Zenon, <1>2, <2>1, <2>2, Stutters
<1> QED
  BY Zenon, <1>3, <1>4, <1>5, AnimationData

(* Every step of the toasts is one of the serial display's. *)
LEMMA StepImplements == ToastInv /\ [Next]_vars => DisplayStep
<1> SUFFICES ASSUME ToastInv, [Next]_vars PROVE DisplayStep
  OBVIOUS
<1>1. ASSUME UNCHANGED <<created, isFinished, onWindow, animation>> PROVE DisplayStep
  BY Zenon, <1>1, Stutters DEF Waiting, Showing, Operations
<1>2. CASE MainQueueRuns
  <2>1. ASSUME Start(Head(mainQueue).toast), UNCHANGED created PROVE DisplayStep
    BY Zenon, <1>1, <2>1 DEF Start, viewVars
  <2> QED
    BY Zenon, <1>2, <2>1, RunData, PresentImplements, CancelImplements
<1>3. ASSUME NEW t \in Toasts, WorkerStarts(t) PROVE DisplayStep
  BY Zenon, <1>1, <1>3 DEF WorkerStarts, viewVars
<1>4. CASE KeyWindowChanges \/ UNCHANGED vars
  BY Zenon, <1>1, <1>4 DEF KeyWindowChanges, vars, operationVars, viewVars
<1> QED
  BY Zenon, <1>2, <1>3, <1>4, ShowImplements, AnimationImplements DEF Next

(* The toast queue is a serial display that never breaks, for any number of *)
(* toasts and in every interleaving.                                        *)
THEOREM IsSerialDisplay == Spec => ImplementsSerialDisplay
<1>1. Init => Display!Init
  BY DEF Init, Display!Init, Operations
<1> QED
  BY <1>1, StepImplements, ToastAlways,
     PTL DEF Spec, ImplementsSerialDisplay, Display!Spec, DisplayStep

-----------------------------------------------------------------------------
(* What the abstract display promises: one at a time, unless it is broken,  *)
(* and none that waits came before one on screen.                           *)
OneAtATime ==
  /\ created \in Nat /\ Waiting \subseteq 1 .. created /\ Showing \subseteq 1 .. created
  /\ \A t, u \in Showing : t = u
  /\ \A t \in Showing, u \in Waiting : t < u

LEMMA DisplaySteps ==
  DisplayStep
    => \/ created' = created + 1 /\ Waiting' = Waiting \cup {created + 1} /\ Showing' = Showing
       \/ \E i \in Waiting :
            /\ \A j \in Waiting : i <= j
            /\ created' = created /\ Waiting' = Waiting \ {i}
            /\ Showing' = Showing \/ (Showing = {} /\ Showing' = Showing \cup {i})
       \/ \E i \in Showing :
            created' = created /\ Waiting' = Waiting /\ Showing' = Showing \ {i}
       \/ created' = created /\ Waiting' = Waiting /\ Showing' = Showing
<1>1. Display!Request
        => created' = created + 1 /\ Waiting' = Waiting \cup {created + 1} /\ Showing' = Showing
  BY Zenon DEF Display!Request, Waiting, Showing
<1>2. ASSUME NEW i, Display!ShowNext(i) \/ Display!GiveUp(i)
      PROVE  /\ i \in Waiting /\ \A j \in Waiting : i <= j
             /\ created' = created /\ Waiting' = Waiting \ {i}
             /\ Showing' = Showing \/ (Showing = {} /\ Showing' = Showing \cup {i})
  BY Zenon, <1>2 DEF Display!ShowNext, Display!GiveUp, Display!IsNext, Waiting, Showing
<1>3. ASSUME NEW i, Display!TakeAway(i)
      PROVE  /\ i \in Showing
             /\ created' = created /\ Waiting' = Waiting /\ Showing' = Showing \ {i}
  BY Zenon, <1>3 DEF Display!TakeAway, Waiting, Showing
<1>4. DisplayStep
        => \/ Display!Request
           \/ \E i : Display!ShowNext(i) \/ Display!GiveUp(i)
           \/ \E i : Display!TakeAway(i)
           \/ created' = created /\ Waiting' = Waiting /\ Showing' = Showing
  BY Zenon DEF DisplayStep, Display!Next, Display!displayVars, Waiting, Showing
<1> QED
  BY Zenon, <1>1, <1>2, <1>3, <1>4

LEMMA DisplayOneAtATime == OneAtATime /\ DisplayStep => OneAtATime'
<1> SUFFICES ASSUME OneAtATime, DisplayStep PROVE OneAtATime'
  OBVIOUS
<1>0. /\ created \in Nat /\ Waiting \subseteq 1 .. created /\ Showing \subseteq 1 .. created
      /\ \A t, u \in Showing : t = u
      /\ \A t \in Showing, u \in Waiting : t < u
  BY DEF OneAtATime
<1>1. CASE created' = created + 1 /\ Waiting' = Waiting \cup {created + 1} /\ Showing' = Showing
  BY <1>0, <1>1 DEF OneAtATime
<1>2. ASSUME NEW i \in Waiting, \A j \in Waiting : i <= j,
             created' = created, Waiting' = Waiting \ {i},
             Showing' = Showing \/ (Showing = {} /\ Showing' = Showing \cup {i})
      PROVE  OneAtATime'
  <2>1. \A u \in Waiting \ {i} : i < u
    BY <1>0, <1>2
  <2>2. CASE Showing' = Showing
    BY Zenon, <1>0, <1>2, <2>2 DEF OneAtATime
  <2>3. CASE Showing' = {i}
    <3>1. i \in 1 .. created /\ Waiting \ {i} \subseteq 1 .. created
      BY Zenon, <1>0, <1>2
    <3> QED
      BY Zenon, <1>0, <1>2, <2>1, <2>3, <3>1 DEF OneAtATime
  <2> QED
    BY <1>2, <2>2, <2>3
<1>3. ASSUME NEW i \in Showing, created' = created, Waiting' = Waiting, Showing' = Showing \ {i}
      PROVE  OneAtATime'
  BY <1>0, <1>3 DEF OneAtATime
<1>4. CASE created' = created /\ Waiting' = Waiting /\ Showing' = Showing
  BY <1>0, <1>4 DEF OneAtATime
<1> HIDE DEF OneAtATime
<1> QED
  BY Zenon, <1>1, <1>2, <1>3, <1>4, DisplaySteps

(* What follows from being a serial display: at most one toast is on the    *)
(* window that is not fading out, and no toast comes up after one that was  *)
(* shown later.                                                             *)
THEOREM OneToastAtATime ==
  Spec => [](/\ \A t, u \in Showing : t = u
             /\ \A t \in Showing, u \in Waiting : t < u)
<1>1. Init => OneAtATime
  <2> SUFFICES ASSUME Init PROVE OneAtATime
    OBVIOUS
  <2>1. created = 0 /\ Operations = {} /\ onWindow = {}
    BY DEF Init, Operations
  <2>2. Waiting = {} /\ Showing = {}
    BY <2>1 DEF Waiting, Showing
  <2> QED
    BY <2>1, <2>2 DEF OneAtATime
<1>2. OneAtATime => /\ \A t, u \in Showing : t = u
                    /\ \A t \in Showing, u \in Waiting : t < u
  BY Zenon DEF OneAtATime
<1> QED
  BY <1>1, <1>2, DisplayOneAtATime, StepImplements, ToastAlways, PTL DEF Spec

-----------------------------------------------------------------------------
(* An operation that was started and not cancelled has its next block in    *)
(* the main queue, or an animation that will finish it.                     *)
Posted(kind, t) == Block(kind, t) \in BlocksOf(mainQueue)

ExecutingGoesOn ==
  crashed \/ \A t \in isExecuting \ isCancelled :
                Posted("present", t) \/ animation[t] \in {"in", "wait"}

StartGoesOn ==
  \A t \in started \ isFinished : t \in isExecuting \cup isCancelled \/ Posted("start", t)

GoesOn == ExecutingGoesOn /\ StartGoesOn

LEMMA AppendBlocks ==
  ASSUME NEW q \in Seq(PostedBlock), NEW b \in PostedBlock
  PROVE  BlocksOf(Append(q, b)) = BlocksOf(q) \cup {b}
<1> DEFINE r == Append(q, b)
<1>1. /\ Len(q) \in Nat /\ Len(r) = Len(q) + 1
      /\ \A k \in 1 .. Len(q) : r[k] = q[k]
      /\ r[Len(q) + 1] = b
  BY AppendProperties
<1> HIDE DEF r
<1>2. BlocksOf(r) = BlocksOf(q) \cup {b}
  BY <1>1 DEF BlocksOf
<1> QED
  BY Zenon, <1>2 DEF r

LEMMA BlockFields ==
  ASSUME NEW kind, NEW t, NEW b, Block(kind, t) = b
  PROVE  b.kind = kind /\ b.toast = t
BY DEF Block

(* Steps that leave the operations' flags and the views alone. *)
LEMMA QueueGrows ==
  ASSUME GoesOn, BlocksOf(mainQueue) \subseteq BlocksOf(mainQueue'),
         isCancelled \subseteq isCancelled', crashed' = crashed,
         UNCHANGED <<isExecuting, isFinished, animation>>,
         \A t \in started' \ started : t \in isFinished \cup isCancelled \/ Posted("start", t)'
  PROVE  GoesOn'
<1>1. ExecutingGoesOn'
  BY Zenon DEF GoesOn, ExecutingGoesOn, Posted
<1>2. StartGoesOn'
  BY Zenon DEF GoesOn, StartGoesOn, Posted
<1> QED
  BY Zenon, <1>1, <1>2 DEF GoesOn

LEMMA ShowGoesOn == ToastInv /\ GoesOn /\ Show => GoesOn'
<1> SUFFICES ASSUME ToastInv, GoesOn, Show PROVE GoesOn'
  OBVIOUS
<1>1. /\ UNCHANGED <<started, isExecuting, isFinished, animation>>
      /\ \/ \E t \in Operations : /\ isCancelled' = isCancelled \cup {t}
                                  /\ mainQueue' = Append(mainQueue, Block("cancel", t))
         \/ UNCHANGED <<isCancelled, mainQueue>>
  BY Zenon, ShowData
<1>2. crashed' = crashed
  BY Zenon DEF Show
<1>3. /\ isCancelled \subseteq isCancelled'
      /\ BlocksOf(mainQueue) \subseteq BlocksOf(mainQueue')
  <2>1. CASE UNCHANGED <<isCancelled, mainQueue>>
    BY Zenon, <2>1
  <2>2. ASSUME NEW t \in Operations, isCancelled' = isCancelled \cup {t},
               mainQueue' = Append(mainQueue, Block("cancel", t))
        PROVE  /\ isCancelled \subseteq isCancelled'
               /\ BlocksOf(mainQueue) \subseteq BlocksOf(mainQueue')
    <3>1. DataTypes
      BY Zenon DEF ToastInv
    <3>2. Block("cancel", t) \in PostedBlock /\ mainQueue \in Seq(PostedBlock)
      BY <3>1, ToastFacts DEF Block, PostedBlock, DataTypes
    <3>3. BlocksOf(mainQueue') = BlocksOf(mainQueue) \cup {Block("cancel", t)}
      BY Zenon, <2>2, <3>2, AppendBlocks
    <3> QED
      BY Zenon, <2>2, <3>3
  <2> QED
    BY Zenon, <1>1, <2>1, <2>2
<1> QED
  BY Zenon, <1>1, <1>2, <1>3, QueueGrows

LEMMA WorkerGoesOn ==
  ASSUME ToastInv, GoesOn, NEW t \in Toasts, WorkerStarts(t)
  PROVE  GoesOn'
<1>0. DataTypes
  BY Zenon DEF ToastInv
<1>1. /\ t \in Operations /\ t \notin started /\ started' = started \cup {t}
      /\ mainQueue' = IF Runnable(t) THEN Append(mainQueue, Block("start", t)) ELSE mainQueue
      /\ UNCHANGED <<isCancelled, isExecuting, isFinished, animation>> /\ crashed' = crashed
  BY Zenon DEF WorkerStarts, IsFirst, viewVars
<1>2. t \notin isExecuting
  BY Zenon, <1>0, <1>1 DEF DataTypes
<1>3. CASE Runnable(t)
  <2>1. Block("start", t) \in PostedBlock /\ mainQueue \in Seq(PostedBlock)
    BY <1>0 DEF Block, PostedBlock, DataTypes
  <2>2. BlocksOf(mainQueue') = BlocksOf(mainQueue) \cup {Block("start", t)}
    BY Zenon, <1>1, <1>3, <2>1, AppendBlocks
  <2>3. Posted("start", t)'
    BY Zenon, <2>2 DEF Posted, Block
  <2>4. \A u \in started' \ started : u = t
    BY Zenon, <1>1
  <2> QED
    BY Zenon, <1>1, <2>2, <2>3, <2>4, QueueGrows
<1>4. CASE ~Runnable(t)
  <2>1. mainQueue' = mainQueue /\ t \in isFinished \cup isCancelled
    BY Zenon, <1>1, <1>2, <1>4 DEF Runnable
  <2> QED
    BY Zenon, <1>1, <2>1, QueueGrows
<1> QED
  BY <1>3, <1>4

LEMMA StartBlockGoesOn ==
  ASSUME ToastInv, GoesOn, mainQueue # <<>>, NEW t, Head(mainQueue).toast = t,
         Head(mainQueue).kind = "start", Start(t), UNCHANGED <<started, isCancelled>>
  PROVE  GoesOn'
<1>1. UNCHANGED <<isFinished, animation, crashed>>
  BY Zenon DEF Start, viewVars
<1>2. /\ BlocksOf(mainQueue) = BlocksOf(Tail(mainQueue)) \cup {Head(mainQueue)}
      /\ Tail(mainQueue) \in Seq(PostedBlock) /\ t \in Toasts
  BY Zenon, HeadFacts
<1>3. \A u : /\ Block("present", u) # Head(mainQueue)
             /\ Block("start", u) = Head(mainQueue) => u = t
  BY DEF Block
<1>4. CASE Runnable(t) /\ isExecuting' = isExecuting \cup {t}
           /\ mainQueue' = Append(Tail(mainQueue), Block("present", t))
  <2>1. Block("present", t) \in PostedBlock
    BY <1>2 DEF Block, PostedBlock
  <2>2. BlocksOf(mainQueue') = BlocksOf(Tail(mainQueue)) \cup {Block("present", t)}
    BY Zenon, <1>2, <1>4, <2>1, AppendBlocks
  <2>3. ExecutingGoesOn'
    BY Zenon, <1>1, <1>2, <1>3, <1>4, <2>2 DEF GoesOn, ExecutingGoesOn, Posted, Block
  <2>4. StartGoesOn'
    BY Zenon, <1>1, <1>2, <1>3, <1>4, <2>2 DEF GoesOn, StartGoesOn, Posted, Block
  <2> QED
    BY Zenon, <2>3, <2>4 DEF GoesOn
<1>5. CASE ~Runnable(t) /\ mainQueue' = Tail(mainQueue) /\ isExecuting' = isExecuting
  <2>1. ExecutingGoesOn'
    BY Zenon, <1>1, <1>2, <1>3, <1>5 DEF GoesOn, ExecutingGoesOn, Posted
  <2>2. t \in isFinished \/ t \in isExecuting \cup isCancelled
    BY Zenon, <1>5 DEF Runnable
  <2>3. StartGoesOn'
    BY Zenon, <1>1, <1>2, <1>3, <1>5, <2>2 DEF GoesOn, StartGoesOn, Posted
  <2> QED
    BY Zenon, <2>1, <2>3 DEF GoesOn
<1> QED
  BY Zenon, <1>4, <1>5 DEF Start

LEMMA PresentBlockGoesOn ==
  ASSUME ToastInv, GoesOn, mainQueue # <<>>, NEW t, Head(mainQueue).toast = t,
         Head(mainQueue).kind = "present", Present(t), UNCHANGED <<started, isCancelled>>
  PROVE  GoesOn'
<1>1. /\ mainQueue' = Tail(mainQueue) /\ isExecuting' = isExecuting /\ isFinished' = isFinished
      /\ \/ animation' = [animation EXCEPT ![t] = "in"] /\ crashed' = crashed
         \/ crashed' = TRUE /\ animation' = animation
  BY Zenon DEF Present, viewVars
<1>2. /\ BlocksOf(mainQueue) = BlocksOf(mainQueue') \cup {Head(mainQueue)} /\ t \in Toasts
  BY Zenon, <1>1, HeadFacts
<1>3. \A u : /\ Block("start", u) # Head(mainQueue)
             /\ Block("present", u) = Head(mainQueue) => u = t
  BY DEF Block
<1>4. StartGoesOn'
  BY Zenon, <1>1, <1>2, <1>3 DEF GoesOn, StartGoesOn, Posted
<1>5. ExecutingGoesOn'
  <2>1. CASE crashed' = TRUE
    BY <2>1 DEF ExecutingGoesOn
  <2>2. CASE animation' = [animation EXCEPT ![t] = "in"] /\ crashed' = crashed
    <3>1. animation \in [Toasts -> Animations] /\ isExecuting \subseteq Toasts
      BY ToastFacts DEF ToastInv, DataTypes
    <3>2. animation'[t] = "in" /\ \A u \in Toasts : u # t => animation'[u] = animation[u]
      BY <1>2, <2>2, <3>1
    <3>3. \A u \in isExecuting \ isCancelled : u = t \/ crashed
             \/ Posted("present", u)' \/ animation'[u] \in {"in", "wait"}
      BY Zenon, <1>2, <1>3, <3>1, <3>2 DEF GoesOn, ExecutingGoesOn, Posted, Block
    <3> QED
      BY Zenon, <1>1, <2>2, <3>2, <3>3 DEF ExecutingGoesOn
  <2> QED
    BY Zenon, <1>1, <2>1, <2>2
<1> QED
  BY Zenon, <1>4, <1>5 DEF GoesOn

LEMMA CancelBlockGoesOn ==
  ASSUME ToastInv, GoesOn, mainQueue # <<>>, NEW t, Head(mainQueue).toast = t,
         Head(mainQueue).kind = "cancel", Cancel(t), UNCHANGED <<started, isCancelled>>
  PROVE  GoesOn'
<1>1. /\ mainQueue' = Tail(mainQueue) /\ isExecuting' = isExecuting \ {t}
      /\ isFinished' = isFinished \cup {t} /\ UNCHANGED <<animation, crashed>>
  BY Zenon DEF Cancel, Finish
<1>2. BlocksOf(mainQueue) = BlocksOf(mainQueue') \cup {Head(mainQueue)}
  BY Zenon, <1>1, HeadFacts
<1>3. \A u : Block("start", u) # Head(mainQueue) /\ Block("present", u) # Head(mainQueue)
  BY DEF Block
<1>4. ExecutingGoesOn'
  BY Zenon, <1>1, <1>2, <1>3 DEF GoesOn, ExecutingGoesOn, Posted
<1>5. StartGoesOn'
  BY Zenon, <1>1, <1>2, <1>3 DEF GoesOn, StartGoesOn, Posted
<1> QED
  BY Zenon, <1>4, <1>5 DEF GoesOn

LEMMA AnimationGoesOn ==
  ASSUME ToastInv, GoesOn, NEW t \in Toasts, AnimationEnds(t)
  PROVE  GoesOn'
<1>1. /\ UNCHANGED <<started, isCancelled, mainQueue>> /\ crashed' = crashed
  BY Zenon, AnimationData DEF AnimationEnds
<1>2. PICK a \in {"wait", "out", "done"} :
        /\ animation' = [animation EXCEPT ![t] = a]
        /\ a = "wait" => isExecuting' = isExecuting /\ isFinished' = isFinished
        /\ a = "out" => isExecuting' = isExecuting \ {t} /\ isFinished' = isFinished \cup {t}
        /\ a = "done" => /\ animation[t] = "out"
                         /\ isExecuting' = isExecuting /\ isFinished' = isFinished
  BY Zenon, AnimationData
<1>3. /\ animation'[t] = a
      /\ \A u \in Toasts : u # t => animation'[u] = animation[u]
      /\ isExecuting \subseteq Toasts
  <2>1. animation \in [Toasts -> Animations] /\ isExecuting \subseteq Toasts
    BY ToastFacts DEF ToastInv, DataTypes
  <2> QED
    BY <1>2, <2>1
<1>4. StartGoesOn'
  BY Zenon, <1>1, <1>2 DEF GoesOn, StartGoesOn, Posted
<1>5. ExecutingGoesOn'
  <2> SUFFICES ASSUME ~crashed, NEW u \in isExecuting' \ isCancelled
               PROVE  Posted("present", u)' \/ animation'[u] \in {"in", "wait"}
    BY Zenon, <1>1 DEF ExecutingGoesOn
  <2>1. u \in isExecuting /\ u \in Toasts
    BY Zenon, <1>2, <1>3
  <2>2. Posted("present", u) \/ animation[u] \in {"in", "wait"}
    BY Zenon, <2>1 DEF GoesOn, ExecutingGoesOn
  <2>3. Posted("present", u)' <=> Posted("present", u)
    BY Zenon, <1>1 DEF Posted, Block
  <2>4. CASE u # t
    BY Zenon, <1>3, <2>1, <2>2, <2>3, <2>4
  <2>5. CASE u = t
    <3>1. a # "out"
      BY Zenon, <1>2, <2>5
    <3>2. a = "done" => animation[t] \notin {"in", "wait"}
      BY <1>2
    <3> QED
      BY Zenon, <1>2, <1>3, <2>2, <2>3, <2>5, <3>1, <3>2
  <2> QED
    BY <2>4, <2>5
<1> QED
  BY Zenon, <1>4, <1>5 DEF GoesOn

LEMMA GoesOnInductive == ToastInv /\ GoesOn /\ [Next]_vars => GoesOn'
<1> SUFFICES ASSUME ToastInv, GoesOn, [Next]_vars PROVE GoesOn'
  OBVIOUS
<1>1. CASE MainQueueRuns
  BY Zenon, <1>1, RunData, StartBlockGoesOn, PresentBlockGoesOn, CancelBlockGoesOn
<1>2. CASE KeyWindowChanges \/ UNCHANGED vars
  <2>1. /\ UNCHANGED <<started, isCancelled, isExecuting, isFinished, mainQueue, animation>>
        /\ crashed' = crashed
    BY Zenon, <1>2 DEF KeyWindowChanges, vars, operationVars, viewVars
  <2> QED
    BY Zenon, <2>1, QueueGrows
<1> QED
  BY Zenon, <1>1, <1>2, ShowGoesOn, WorkerGoesOn, AnimationGoesOn DEF Next

(* No toast that the queue started is forgotten: as long as it has not      *)
(* finished, and with it the toasts behind it, a block about it is in the   *)
(* main queue or an animation of it is running that will finish it.         *)
THEOREM NoToastIsForgotten ==
  Spec => [](crashed
               \/ \A t \in started \ isFinished :
                    \/ \E k \in 1 .. Len(mainQueue) : mainQueue[k].toast = t
                    \/ animation[t] \in {"in", "wait"})
<1>1. Init => GoesOn
  BY Zenon DEF Init, GoesOn, ExecutingGoesOn, StartGoesOn
<1>2. ToastInv /\ GoesOn
        => \/ crashed
           \/ \A t \in started \ isFinished :
                \/ \E k \in 1 .. Len(mainQueue) : mainQueue[k].toast = t
                \/ animation[t] \in {"in", "wait"}
  <2> SUFFICES ASSUME ToastInv, GoesOn, ~crashed, NEW t \in started \ isFinished
               PROVE  \/ \E k \in 1 .. Len(mainQueue) : mainQueue[k].toast = t
                      \/ animation[t] \in {"in", "wait"}
    BY Zenon
  <2>1. \/ \E kind : Block(kind, t) \in BlocksOf(mainQueue)
        \/ animation[t] \in {"in", "wait"}
    BY Zenon DEF ToastInv, QueueInv, CancelsPosted, GoesOn, ExecutingGoesOn, StartGoesOn, Posted
  <2>2. ASSUME NEW kind, Block(kind, t) \in BlocksOf(mainQueue)
        PROVE  \E k \in 1 .. Len(mainQueue) : mainQueue[k].toast = t
    <3>1. PICK k \in 1 .. Len(mainQueue) : Block(kind, t) = mainQueue[k]
      BY Zenon, <2>2 DEF BlocksOf
    <3>2. mainQueue[k].toast = t
      BY <3>1, BlockFields
    <3> QED
      BY Zenon, <3>2
  <2> QED
    BY Zenon, <2>1, <2>2
<1> QED
  BY <1>1, <1>2, GoesOnInductive, ToastAlways, PTL DEF Spec
=============================================================================
