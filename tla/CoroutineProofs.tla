---- MODULE CoroutineProofs ----
(***************************************************************************)
(* Proofs about Coroutine.tla, for any number of frames and harts and any  *)
(* code in the bodies: a task is resumed by one party only, its frames are *)
(* owned up to its executor, the library does not panic under clients that *)
(* await what they create and schedule only with memory, and Coroutine     *)
(* implements CallStack: awaiting, returning, yielding values and failing  *)
(* are calls, returns and exceptions on one stack per task.                *)
(***************************************************************************)
EXTENDS Coroutine, TLAPS

-----------------------------------------------------------------------------
(* Forests of frames *)

\* The links of a field like owner or caller.
Links == [Frames -> Frames \cup {None}]

Closed(o, S) == \A x \in S : o[x] /= None => o[x] \in S

\* A frame and those that its links lead to.
Above(o, f) == {g \in Frames : \A S \in SUBSET Frames : f \in S /\ Closed(o, S) => g \in S}

\* The links do not go round.
Acyclic(o) == \A S \in SUBSET Frames : S /= {} => \E x \in S : o[x] \notin S

LEMMA NoneFacts == None \notin Frames
  BY FramesAssumption, Zenon DEF None

\* Links are followed one by one.
LEMMA AboveFacts ==
    ASSUME NEW o \in Links, NEW f \in Frames
    PROVE  /\ f \in Above(o, f) /\ Above(o, f) \subseteq Frames /\ Closed(o, Above(o, f))
           /\ \A S \in SUBSET Frames : f \in S /\ Closed(o, S) => Above(o, f) \subseteq S
           /\ o[f] = None => Above(o, f) = {f}
           /\ o[f] /= None => Above(o, f) = {f} \cup Above(o, o[f])
<1>1. f \in Above(o, f) /\ Above(o, f) \subseteq Frames
  BY Zenon DEF Above
<1>2. \A S \in SUBSET Frames : f \in S /\ Closed(o, S) => Above(o, f) \subseteq S
  BY Zenon DEF Above
<1>3. ASSUME NEW k \in Frames PROVE Closed(o, Above(o, k))
  <2> SUFFICES ASSUME NEW x \in Above(o, k), o[x] /= None PROVE o[x] \in Above(o, k)
    BY Zenon DEF Closed
  <2>1. x \in Frames /\ o[x] \in Frames
    BY Zenon DEF Above, Links
  <2>2. ASSUME NEW S \in SUBSET Frames, k \in S, Closed(o, S) PROVE o[x] \in S
    <3>1. x \in S
      BY <2>2, Zenon DEF Above
    <3> QED
      BY <2>2, <3>1, Zenon DEF Closed
  <2> QED
    BY <2>1, <2>2, Zenon DEF Above
<1>4. ASSUME o[f] = None PROVE Above(o, f) = {f}
  <2>1. Closed(o, {f})
    BY <1>4, Zenon DEF Closed
  <2> QED
    BY <1>1, <1>2, <2>1, Zenon
<1>5. ASSUME o[f] /= None PROVE Above(o, f) = {f} \cup Above(o, o[f])
  <2>1. o[f] \in Frames
    BY <1>5, Zenon DEF Links
  <2>2. o[f] \in Above(o, o[f]) /\ Above(o, o[f]) \subseteq Frames
    BY <2>1, Zenon DEF Above
  <2>3. Closed(o, {f} \cup Above(o, o[f]))
    BY <1>3, <2>1, <2>2, Zenon DEF Closed
  <2>4. Above(o, f) \subseteq {f} \cup Above(o, o[f])
    BY <1>2, <2>2, <2>3, Zenon
  <2>5. o[f] \in Above(o, f)
    BY <1>1, <1>3, <1>5, Zenon DEF Closed
  <2>6. \A S \in SUBSET Frames : o[f] \in S /\ Closed(o, S) => Above(o, o[f]) \subseteq S
    BY Zenon DEF Above
  <2>7. Above(o, o[f]) \subseteq Above(o, f)
    BY <1>1, <1>3, <2>5, <2>6, Zenon
  <2> QED
    BY <1>1, <2>4, <2>7, Zenon
<1> QED
  BY <1>1, <1>2, <1>3, <1>4, <1>5, Zenon

LEMMA AboveTrans ==
    ASSUME NEW o \in Links, NEW f \in Frames, NEW g \in Above(o, f)
    PROVE  g \in Frames /\ Above(o, g) \subseteq Above(o, f)
<1>1. g \in Frames /\ Above(o, f) \in SUBSET Frames /\ Closed(o, Above(o, f))
  BY AboveFacts, Zenon
<1> QED
  BY <1>1, AboveFacts, Zenon

\* Links that agree on what is above a frame have the same frames above it.
LEMMA AboveSame ==
    ASSUME NEW o \in Links, NEW p \in Links, NEW f \in Frames, \A x \in Above(o, f) : p[x] = o[x]
    PROVE  Above(p, f) = Above(o, f)
<1>1. PICK A : A = Above(o, f)
  BY Zenon
<1>2. A \in SUBSET Frames /\ f \in A /\ Closed(o, A)
  BY <1>1, AboveFacts, Zenon
<1>3. Closed(p, A)
  BY <1>1, <1>2, Zenon DEF Closed
<1>4. Above(p, f) \subseteq A
  BY <1>2, <1>3, AboveFacts, Zenon
<1>5. PICK B : B = Above(p, f)
  BY Zenon
<1>6. B \in SUBSET Frames /\ f \in B /\ Closed(p, B)
  BY <1>5, AboveFacts, Zenon
<1>7. Closed(o, B)
  BY <1>1, <1>4, <1>5, <1>6, Zenon DEF Closed
<1>8. Above(o, f) \subseteq B
  BY <1>6, <1>7, AboveFacts, Zenon
<1> QED
  BY <1>1, <1>4, <1>5, <1>8, Zenon

\* Whatever is above f is below the root above f.
LEMMA RootAbove ==
    ASSUME NEW o \in Links, NEW f \in Frames, NEW e \in Above(o, f), o[e] = None,
           NEW x \in Above(o, f)
    PROVE  e \in Above(o, x)
<1> DEFINE S == {y \in Above(o, f) : e \in Above(o, y)}
<1>1. S \in SUBSET Frames /\ f \in S
  BY AboveFacts, Zenon
<1>2. ASSUME NEW y \in S, o[y] /= None PROVE o[y] \in S
  <2>1. y \in Above(o, f) /\ y \in Frames /\ e \in Above(o, y) /\ y /= e
    BY <1>1, <1>2, Zenon
  <2>2. o[y] \in Above(o, f)
    BY <1>2, <2>1, AboveFacts, Zenon DEF Closed
  <2>3. Above(o, y) = {y} \cup Above(o, o[y])
    BY <1>2, <2>1, AboveFacts, Zenon
  <2> QED
    BY <2>1, <2>2, <2>3, Zenon
<1>3. Closed(o, S)
  BY <1>2, Zenon DEF Closed
<1> HIDE DEF S
<1>4. Above(o, f) \subseteq S
  BY <1>1, <1>3, AboveFacts, Zenon
<1> QED
  BY <1>4, Zenon DEF S

\* A link never leads back.
LEMMA AboveNotBelow ==
    ASSUME NEW o \in Links, Acyclic(o), NEW f \in Frames, o[f] /= None
    PROVE  f \notin Above(o, o[f])
<1> SUFFICES ASSUME f \in Above(o, o[f]) PROVE FALSE
  BY Zenon
<1>1. o[f] \in Frames
  BY Zenon DEF Links
<1> DEFINE S == {y \in Above(o, o[f]) : f \in Above(o, y)}
<1>2. o[f] \in S /\ S \in SUBSET Frames
  BY <1>1, AboveFacts, Zenon
<1>3. ASSUME NEW y \in S PROVE o[y] \in S
  <2>1. y \in Above(o, o[f]) /\ y \in Frames /\ f \in Above(o, y)
    BY <1>2, <1>3, Zenon
  <2>2. o[y] /= None
    BY <2>1, AboveFacts
  <2>3. o[y] \in Above(o, o[f])
    BY <1>1, <2>1, <2>2, AboveFacts, Zenon DEF Closed
  <2>4. Above(o, y) = {y} \cup Above(o, o[y])
    BY <2>1, <2>2, AboveFacts, Zenon
  <2>5. CASE f = y
    BY <1>2, <2>5, Zenon
  <2>6. CASE f /= y
    BY <2>1, <2>3, <2>4, <2>6, Zenon
  <2> QED
    BY <2>5, <2>6, Zenon
<1> HIDE DEF S
<1> QED
  BY <1>2, <1>3, Zenon DEF Acyclic

\* The recursion of OwnersOf and CallersOf has one solution.
LEMMA AboveUnique ==
    ASSUME NEW o \in Links, Acyclic(o), NEW F,
           F = CHOOSE G : G = [f \in Frames |-> {f} \cup IF o[f] = None THEN {} ELSE G[o[f]]]
    PROVE  \A f \in Frames : F[f] = Above(o, f)
<1> DEFINE Eq(G) == G = [f \in Frames |-> {f} \cup IF o[f] = None THEN {} ELSE G[o[f]]]
<1>1. PICK A : A = [f \in Frames |-> Above(o, f)]
  BY Zenon
<1>2. ASSUME NEW f \in Frames PROVE A[f] = {f} \cup IF o[f] = None THEN {} ELSE A[o[f]]
  <2>1. o[f] /= None => o[f] \in Frames
    BY Zenon DEF Links
  <2> QED
    BY <1>1, <2>1, AboveFacts
<1>3. Eq(A)
  BY <1>1, <1>2, Zenon
<1>4. Eq(F)
  BY <1>3, Zenon
<1>5. \A f \in Frames : F[f] = {f} \cup IF o[f] = None THEN {} ELSE F[o[f]]
  BY <1>4, Zenon
<1> HIDE DEF Eq
<1> DEFINE S == {f \in Frames : F[f] /= Above(o, f)}
<1>6. S \in SUBSET Frames
  BY Zenon
<1>7. ASSUME NEW x \in S PROVE o[x] \in S
  <2>1. x \in Frames /\ F[x] /= Above(o, x)
    BY Zenon
  <2>2. o[x] /= None
    <3>1. o[x] = None => F[x] = {x} \cup {} /\ Above(o, x) = {x}
      BY <1>5, <2>1, AboveFacts, Zenon
    <3> QED
      BY <2>1, <3>1, Zenon
  <2>3. o[x] \in Frames /\ F[x] = {x} \cup F[o[x]] /\ Above(o, x) = {x} \cup Above(o, o[x])
    BY <1>5, <2>1, <2>2, AboveFacts, Zenon DEF Links
  <2> QED
    BY <2>1, <2>3, Zenon
<1>8. S = {}
  <2> HIDE DEF S
  <2> QED
    BY <1>6, <1>7, Zenon DEF Acyclic
<1> QED
  BY <1>8, Zenon

-----------------------------------------------------------------------------
(* The invariant *)

Statuses == {"free", "init", "running", "suspend", "done", "fail"}

TypeOK ==
    /\ status \in [Frames -> Statuses]
    /\ caller \in Links /\ owner \in Links
    /\ has_error_handler \in [Frames -> BOOLEAN]
    /\ no_yield \in [Frames -> BOOLEAN]
    /\ executor \in [Frames -> BOOLEAN]
    /\ queue \in Seq(Frames) /\ asleep \in SUBSET Frames
    /\ running \in [Harts -> Frames \cup {None}]

\* A frame that has begun was called by its owner, unless it is an executor,
\* which nobody owns.
InvFrame(f) ==
    /\ status[f] = "free" =>
           owner[f] = None /\ caller[f] = None /\ ~no_yield[f] /\ ~executor[f]
    /\ status[f] /= "free" => (executor[f] <=> owner[f] = None)
    /\ owner[f] /= None => status[owner[f]] /= "free"
    /\ caller[f] = (IF status[f] = "init" THEN None ELSE owner[f])
    /\ caller[f] /= None => status[owner[f]] /= "init"

\* no_yield is handed down from caller to callee; an executor guards its task.
InvFlags(f) ==
    /\ executor[f] => ~no_yield[f]
    /\ caller[f] /= None /\ no_yield[caller[f]] => no_yield[f]
    /\ caller[f] /= None /\ executor[caller[f]] => has_error_handler[f]

\* The places of suspended and running frames.
Places ==
    /\ \A i, j \in DOMAIN queue : queue[i] = queue[j] => i = j
    /\ \A g, h \in Harts : running[g] = running[h] /\ running[g] /= None => g = h
    /\ Range(queue) \cap asleep = {}
    /\ Range(running) \cap (Range(queue) \cup asleep) = {}

\* Active frames have begun, or are executors still in the queue; those that
\* are not on a hart may yield.
InvActive ==
    /\ \A f \in Active : /\ status[f] /= "free"
                         /\ status[f] = "init" => executor[f] /\ f \in Range(queue)
    /\ \A f \in Range(queue) \cup asleep : ~no_yield[f]

\* Each executor has one active frame below it.
InvTrees ==
    /\ \A f, g \in Active : f /= g => Above(owner, f) \cap Above(owner, g) = {}
    /\ \A e \in Frames : executor[e] => \E f \in Active : e \in Above(owner, f)

IInv ==
    /\ TypeOK
    /\ \A f \in Frames : InvFrame(f) /\ InvFlags(f)
    /\ Acyclic(owner)
    /\ Places
    /\ InvActive
    /\ InvTrees

\* A client that awaits at once what it creates has at most one task that has
\* not begun, and does nothing else before it begins.
Uncalled == {g \in Frames : status[g] = "init" /\ ~executor[g]}

InvPrompt ==
    /\ \A g \in Uncalled : owner[g] \in Active
    /\ \A f, g \in Uncalled : owner[f] = owner[g] => f = g

PanicInv == ~Deferred /\ Reserved => InvPrompt /\ ~panic

-----------------------------------------------------------------------------
(* What the recursive definitions compute *)

\* The callers of a frame that has begun are its owners.
LEMMA CallerFacts ==
    ASSUME IInv
    PROVE  /\ owner \in Links /\ caller \in Links /\ Acyclic(owner) /\ Acyclic(caller)
           /\ \A f \in Frames : caller[f] /= None => caller[f] = owner[f] /\ caller[f] \in Frames
<1>1. owner \in Links /\ caller \in Links /\ Acyclic(owner)
  BY Zenon DEF IInv, TypeOK
<1>2. \A f \in Frames : caller[f] = None \/ caller[f] = owner[f]
  BY Zenon DEF IInv, InvFrame
<1>3. \A f \in Frames : caller[f] \in Frames \cup {None}
  BY <1>1, Zenon DEF Links
<1>4. Acyclic(caller)
  <2> SUFFICES ASSUME NEW S \in SUBSET Frames, S /= {} PROVE \E x \in S : caller[x] \notin S
    BY Zenon DEF Acyclic
  <2>1. PICK x \in S : owner[x] \notin S
    BY <1>1, Zenon DEF Acyclic
  <2>2. caller[x] \notin S
    BY <1>2, <2>1, NoneFacts, Zenon
  <2> QED
    BY <2>2, Zenon
<1> QED
  BY <1>1, <1>2, <1>3, <1>4, Zenon

LEMMA OwnersAre ==
    ASSUME IInv
    PROVE  /\ \A f \in Frames : OwnersOf[f] = Above(owner, f)
           /\ \A f \in Frames : CallersOf[f] = Above(caller, f)
<1>1. \A f \in Frames : OwnersOf[f] = Above(owner, f)
  BY CallerFacts, AboveUnique, Zenon DEF OwnersOf
<1>2. \A f \in Frames : CallersOf[f] = Above(caller, f)
  BY CallerFacts, AboveUnique, Zenon DEF CallersOf
<1> QED
  BY <1>1, <1>2, Zenon

\* coroutine_handle_fail goes from frame to frame.
LEMMA FailRecursion ==
    ASSUME IInv
    PROVE  \A f \in Frames :
               FailPoint[f] = IF caller[f] = None THEN None
                              ELSE IF has_error_handler[f] THEN f ELSE FailPoint[caller[f]]
<1>1. PICK o : o = [x \in Frames |-> IF has_error_handler[x] THEN None ELSE caller[x]]
  BY Zenon
<1>2. o \in Links
  BY <1>1, CallerFacts, Zenon DEF Links
<1> DEFINE Tops(f) == {g \in Above(o, f) : o[g] = None}
           Top(f) == CHOOSE g : g \in Tops(f)
           Val(f) == IF caller[Top(f)] = None THEN None ELSE Top(f)
<1>3. PICK V : V = [f \in Frames |-> Val(f)]
  BY Zenon
<1>4. ASSUME NEW f \in Frames
      PROVE  V[f] = IF caller[f] = None THEN None ELSE IF has_error_handler[f] THEN f ELSE V[caller[f]]
  <2>1. CASE o[f] = None
    <3>1. Tops(f) = {f}
      BY <1>2, <2>1, AboveFacts
    <3>2. Top(f) = f
      BY <3>1, Zenon
    <3>3. V[f] = IF caller[f] = None THEN None ELSE f
      <4> HIDE DEF Tops, Top
      <4> QED
        BY <1>3, <3>2, Zenon
    <3>4. caller[f] = None \/ has_error_handler[f]
      BY <1>1, <2>1, Zenon
    <3> QED
      BY <3>3, <3>4, Zenon
  <2>2. CASE o[f] /= None
    <3>1. o[f] = caller[f] /\ ~has_error_handler[f] /\ caller[f] /= None /\ caller[f] \in Frames
      BY <1>1, <2>2, CallerFacts, Zenon
    <3>2. Above(o, f) = {f} \cup Above(o, caller[f])
      BY <1>2, <2>2, <3>1, AboveFacts
    <3>3. Tops(f) = Tops(caller[f])
      BY <2>2, <3>2, Zenon
    <3>4. Val(f) = Val(caller[f])
      <4> HIDE DEF Tops
      <4> QED
        BY <3>3
    <3> HIDE DEF Val
    <3> QED
      BY <1>3, <3>1, <3>4, Zenon
  <2> QED
    BY <2>1, <2>2, Zenon
<1> HIDE DEF Val
<1>5. V = [f \in Frames |-> IF caller[f] = None THEN None
                            ELSE IF has_error_handler[f] THEN f ELSE V[caller[f]]]
  BY <1>3, <1>4, Zenon
<1>6. FailPoint = [f \in Frames |-> IF caller[f] = None THEN None
                            ELSE IF has_error_handler[f] THEN f ELSE FailPoint[caller[f]]]
  BY <1>5, Zenon DEF FailPoint
<1>7. PICK P : P = FailPoint
  BY Zenon
<1>8. P = [f \in Frames |-> IF caller[f] = None THEN None
                            ELSE IF has_error_handler[f] THEN f ELSE P[caller[f]]]
  BY <1>6, <1>7, Zenon
<1> QED
  BY <1>7, <1>8, Zenon

\* A failure stops at a frame on the way up, and always does for a task that runs.
LEMMA HandleFailFacts ==
    ASSUME IInv, NEW f \in Frames
    PROVE  /\ HandleFail(f) = None \/ (/\ HandleFail(f) \in Above(owner, f)
                                       /\ caller[HandleFail(f)] /= None)
           /\ status[f] \notin {"free", "init"} /\ ~executor[f] => HandleFail(f) /= None
<1>1. /\ owner \in Links /\ Acyclic(owner)
      /\ \A x \in Frames : caller[x] /= None => caller[x] = owner[x] /\ caller[x] \in Frames
  BY CallerFacts, Zenon
<1> DEFINE Good(x) == FailPoint[x] = None \/ (FailPoint[x] \in Above(owner, x) /\ caller[FailPoint[x]] /= None)
           S == {x \in Frames : ~Good(x)}
           T == {x \in Frames : status[x] \notin {"free", "init"} /\ ~executor[x] /\ FailPoint[x] = None}
<1>2. ASSUME NEW x \in S PROVE owner[x] \in S
  <2>1. x \in Frames /\ FailPoint[x] /= None
    BY Zenon
  <2>2. caller[x] /= None
    BY <2>1, FailRecursion, Zenon
  <2>3. ~has_error_handler[x]
    <3>1. has_error_handler[x] => FailPoint[x] = x
      BY <2>1, <2>2, FailRecursion, Zenon
    <3>2. x \in Above(owner, x)
      BY <1>1, <2>1, AboveFacts, Zenon
    <3> QED
      BY <2>2, <3>1, <3>2, Zenon
  <2>4. FailPoint[x] = FailPoint[owner[x]] /\ owner[x] \in Frames /\ owner[x] /= None
    BY <1>1, <2>1, <2>2, <2>3, FailRecursion, Zenon
  <2>5. Above(owner, owner[x]) \subseteq Above(owner, x)
    BY <1>1, <2>1, <2>4, AboveFacts, Zenon
  <2> QED
    BY <2>4, <2>5, Zenon
<1>3. ASSUME NEW x \in T PROVE owner[x] \in T
  <2>1. x \in Frames /\ status[x] \notin {"free", "init"} /\ ~executor[x] /\ FailPoint[x] = None
    BY Zenon
  <2>2. caller[x] /= None /\ caller[x] = owner[x] /\ owner[x] \in Frames
        /\ status[owner[x]] \notin {"free", "init"}
    BY <1>1, <2>1, Zenon DEF IInv, InvFrame
  <2>3. x /= None
    BY <2>1, NoneFacts, Zenon
  <2>4. ~has_error_handler[x] /\ FailPoint[owner[x]] = None
    BY <2>1, <2>2, <2>3, FailRecursion, Zenon
  <2>5. ~executor[owner[x]]
    BY <2>1, <2>2, <2>4, Zenon DEF IInv, InvFlags
  <2> QED
    BY <2>2, <2>4, <2>5, Zenon
<1>4. S = {} /\ T = {}
  <2>1. S \in SUBSET Frames /\ T \in SUBSET Frames
    BY Zenon
  <2> HIDE DEF S, T
  <2> QED
    BY <1>1, <1>2, <1>3, <2>1, Zenon DEF Acyclic
<1> QED
  BY <1>4, Zenon DEF HandleFail

\* A frame has the same callers and owners once it has begun.
LEMMA CallersOwners ==
    ASSUME IInv, NEW f \in Frames, status[f] /= "free", status[f] = "init" => executor[f]
    PROVE  Above(caller, f) = Above(owner, f)
<1>1. owner \in Links /\ caller \in Links
  BY CallerFacts, Zenon
<1> DEFINE S == {x \in Frames : caller[x] = owner[x]}
<1>2. f \in S
  BY Zenon DEF IInv, InvFrame
<1>3. ASSUME NEW x \in S, owner[x] /= None PROVE owner[x] \in S
  <2>1. x \in Frames /\ caller[x] = owner[x]
    BY <1>3, Zenon
  <2>2. owner[x] \in Frames
    BY <1>1, <1>3, <2>1, Zenon DEF Links
  <2>3. status[owner[x]] /= "init"
    BY <1>3, <2>1, Zenon DEF IInv, InvFrame
  <2> QED
    BY <2>2, <2>3, Zenon DEF IInv, InvFrame
<1>4. Closed(owner, S) /\ S \in SUBSET Frames
  BY <1>3, Zenon DEF Closed
<1> HIDE DEF S
<1>5. Above(owner, f) \subseteq S
  BY <1>1, <1>2, <1>4, AboveFacts, Zenon
<1>6. \A x \in Above(owner, f) : caller[x] = owner[x]
  BY <1>5, Zenon DEF S
<1> QED
  BY <1>1, <1>6, AboveSame, Zenon

-----------------------------------------------------------------------------
(* Destroying frames and moving along a stack *)

\* With a frame, everything it owns is destroyed.
Subtree(S) == \A x \in Frames : owner[x] \in S => x \in S

\* A status that changes only among those of frames that have begun.
Begun(st) ==
    /\ st \in [Frames -> Statuses]
    /\ \A x \in Frames : (st[x] = "free" <=> status[x] = "free") /\ (st[x] = "init" <=> status[x] = "init")

\* ~task for a frame and what it owns: the links of the other frames stay.
LEMMA DestroyFacts ==
    ASSUME IInv, NEW S \in SUBSET Frames, Subtree(S), NEW st, Begun(st), Destroy(S, st)
    PROVE  /\ \A x \in Frames \ S : /\ status'[x] = st[x] /\ owner'[x] = owner[x]
                                    /\ no_yield'[x] = no_yield[x] /\ executor'[x] = executor[x]
           /\ \A x \in S : status'[x] = "free" /\ ~executor'[x] /\ owner'[x] = None
           /\ \A x \in Frames \ S : Above(owner', x) = Above(owner, x)
           /\ status' \in [Frames -> Statuses] /\ owner' \in Links /\ caller' \in Links
           /\ has_error_handler' \in [Frames -> BOOLEAN]
           /\ no_yield' \in [Frames -> BOOLEAN] /\ executor' \in [Frames -> BOOLEAN]
           /\ Acyclic(owner')
           /\ \A x \in Frames : InvFrame(x)' /\ InvFlags(x)'
<1>1. /\ status' = [x \in Frames |-> IF x \in S THEN "free" ELSE st[x]]
      /\ caller' = [x \in Frames |-> IF x \in S THEN None ELSE caller[x]]
      /\ owner' = [x \in Frames |-> IF x \in S THEN None ELSE owner[x]]
      /\ has_error_handler' = [x \in Frames |-> IF x \in S THEN FALSE ELSE has_error_handler[x]]
      /\ no_yield' = [x \in Frames |-> IF x \in S THEN FALSE ELSE no_yield[x]]
      /\ executor' = [x \in Frames |-> IF x \in S THEN FALSE ELSE executor[x]]
  BY Zenon DEF Destroy
<1>2. /\ owner \in Links /\ caller \in Links /\ Acyclic(owner)
      /\ \A x \in Frames : caller[x] /= None => caller[x] = owner[x] /\ caller[x] \in Frames
  BY CallerFacts, Zenon
<1>3. owner' \in Links /\ caller' \in Links
  BY <1>1, <1>2, Zenon DEF Links
<1>4. status' \in [Frames -> Statuses]
  BY <1>1, Zenon DEF Begun, Statuses
<1>5. /\ has_error_handler' \in [Frames -> BOOLEAN]
      /\ no_yield' \in [Frames -> BOOLEAN] /\ executor' \in [Frames -> BOOLEAN]
  BY <1>1, Zenon DEF IInv, TypeOK
<1>6. Acyclic(owner')
  <2> SUFFICES ASSUME NEW T \in SUBSET Frames, T /= {} PROVE \E x \in T : owner'[x] \notin T
    BY Zenon DEF Acyclic
  <2>1. CASE T \cap S /= {}
    BY <1>1, <2>1, NoneFacts, Zenon
  <2>2. CASE T \cap S = {}
    <3>1. PICK x \in T : owner[x] \notin T
      BY <1>2, Zenon DEF Acyclic
    <3> QED
      BY <1>1, <2>2, <3>1, Zenon
  <2> QED
    BY <2>1, <2>2, Zenon
<1>7. ASSUME NEW x \in Frames \ S PROVE Above(owner', x) = Above(owner, x)
  <2>1. Closed(owner, Frames \ S)
    BY <1>2, Zenon DEF Closed, Subtree, Links
  <2>2. Above(owner, x) \subseteq Frames \ S
    BY <1>2, <2>1, AboveFacts, Zenon
  <2>3. \A y \in Above(owner, x) : owner'[y] = owner[y]
    BY <1>1, <2>2, Zenon
  <2> QED
    BY <1>2, <1>3, <2>3, AboveSame, Zenon
<1>8. ASSUME NEW x \in Frames PROVE InvFrame(x)'
  <2>1. CASE x \in S
    BY <1>1, <2>1, Zenon DEF InvFrame
  <2>2. CASE x \notin S
    <3>1. /\ InvFrame(x) /\ st[x] \in Statuses
          /\ (st[x] = "free" <=> status[x] = "free") /\ (st[x] = "init" <=> status[x] = "init")
      BY Zenon DEF IInv, Begun
    <3>2. owner[x] /= None => owner[x] \in Frames \ S
      BY <1>2, <2>2, Zenon DEF Links, Subtree
    <3>3. owner[x] /= None => /\ status'[owner[x]] = "free" <=> status[owner[x]] = "free"
                              /\ status'[owner[x]] = "init" <=> status[owner[x]] = "init"
      BY <1>1, <3>2, Zenon DEF Begun
    <3>4. /\ status'[x] = st[x] /\ owner'[x] = owner[x] /\ caller'[x] = caller[x]
          /\ no_yield'[x] = no_yield[x] /\ executor'[x] = executor[x]
      BY <1>1, <2>2, Zenon
    <3> QED
      BY <3>1, <3>3, <3>4, Zenon DEF InvFrame
  <2> QED
    BY <2>1, <2>2, Zenon
<1>9. ASSUME NEW x \in Frames PROVE InvFlags(x)'
  <2>1. CASE x \in S
    BY <1>1, <2>1, Zenon DEF InvFlags
  <2>2. CASE x \notin S
    <3>1. InvFlags(x)
      BY Zenon DEF IInv
    <3>2. caller[x] /= None => caller[x] \in Frames \ S
      BY <1>2, <2>2, Zenon DEF Subtree
    <3>3. /\ caller'[x] = caller[x] /\ has_error_handler'[x] = has_error_handler[x]
          /\ no_yield'[x] = no_yield[x] /\ executor'[x] = executor[x]
          /\ caller[x] /= None => /\ no_yield'[caller[x]] = no_yield[caller[x]]
                                  /\ executor'[caller[x]] = executor[caller[x]]
      BY <1>1, <2>2, <3>2, Zenon
    <3> QED
      BY <3>1, <3>3, Zenon DEF InvFlags
  <2> QED
    BY <2>1, <2>2, Zenon
<1>10. /\ \A x \in Frames \ S : /\ status'[x] = st[x] /\ owner'[x] = owner[x]
                                /\ no_yield'[x] = no_yield[x] /\ executor'[x] = executor[x]
       /\ \A x \in S : status'[x] = "free" /\ ~executor'[x] /\ owner'[x] = None
  BY <1>1, Zenon
<1> QED
  BY <1>3, <1>4, <1>5, <1>6, <1>7, <1>8, <1>9, <1>10, Zenon

\* What is known of the frame on a hart.
LEMMA RunningFacts ==
    ASSUME IInv, NEW h \in Harts, running[h] /= None
    PROVE  /\ running[h] \in Frames /\ running[h] \in Active
           /\ running[h] \notin Range(queue) \cup asleep
           /\ status[running[h]] \notin {"free", "init"}
<1>1. running \in [Harts -> Frames \cup {None}]
  BY Zenon DEF IInv, TypeOK
<1>2. running[h] \in Range(running)
  BY <1>1, Zenon DEF Range
<1>3. running[h] \in Active
  BY <1>2, Zenon DEF Active
<1>4. running[h] \notin Range(queue) \cup asleep
  BY <1>2, Zenon DEF IInv, Places
<1> QED
  BY <1>1, <1>3, <1>4, Zenon DEF IInv, InvActive

\* One hart goes on with x.
LEMMA HartRange ==
    ASSUME IInv, NEW h \in Harts, NEW x \in Frames \cup {None},
           x \notin Range(running) \ {running[h], None},
           running' = [running EXCEPT ![h] = x]
    PROVE  /\ running' \in [Harts -> Frames \cup {None}]
           /\ Range(running') \ {None} = ((Range(running) \ {running[h]}) \cup {x}) \ {None}
           /\ \A g, k \in Harts : running'[g] = running'[k] /\ running'[g] /= None => g = k
<1>1. running \in [Harts -> Frames \cup {None}]
  BY Zenon DEF IInv, TypeOK
<1>2. /\ running' \in [Harts -> Frames \cup {None}] /\ running'[h] = x
      /\ \A k \in Harts : k /= h => running'[k] = running[k]
  BY <1>1, Zenon
<1>3. /\ \A k \in Harts : running[k] \in Range(running)
      /\ \A r \in Range(running) : \E k \in Harts : r = running[k]
      /\ \A r \in Range(running') : \E k \in Harts : r = running'[k]
      /\ \A k \in Harts : running'[k] \in Range(running')
  BY <1>1, <1>2, Zenon DEF Range
<1>4. \A g, k \in Harts : running[g] = running[k] /\ running[g] /= None => g = k
  BY Zenon DEF IInv, Places
<1>5. ASSUME NEW r \in Range(running') \ {None}
      PROVE  r \in ((Range(running) \ {running[h]}) \cup {x}) \ {None}
  <2>1. PICK k \in Harts : r = running'[k]
    BY <1>3, Zenon
  <2> QED
    BY <1>2, <1>3, <1>4, <2>1, Zenon
<1>6. ASSUME NEW r \in Range(running) \ {None, running[h]} PROVE r \in Range(running') \ {None}
  <2>1. PICK k \in Harts : r = running[k]
    BY <1>3, Zenon
  <2> QED
    BY <1>2, <1>3, <2>1, Zenon
<1>7. x \in Range(running')
  BY <1>2, <1>3, Zenon
<1>8. \A k \in Harts : k /= h /\ running[k] /= None => running[k] \in Range(running) \ {running[h], None}
  BY <1>3, <1>4, Zenon
<1>9. \A g, k \in Harts : running'[g] = running'[k] /\ running'[g] /= None => g = k
  BY <1>2, <1>4, <1>8, Zenon
<1>10. Range(running') \ {None} = ((Range(running) \ {running[h]}) \cup {x}) \ {None}
  BY <1>5, <1>6, <1>7, Zenon
<1> QED
  BY <1>2, <1>9, <1>10, Zenon

\* A hart goes on with another frame, or with none.
LEMMA HartMoves ==
    ASSUME IInv, NEW h \in Harts, running[h] /= None, NEW x \in Frames \cup {None},
           x \notin Active \ {running[h]},
           running' = [running EXCEPT ![h] = x], queue' = queue, asleep' = asleep
    PROVE  /\ Places' /\ Active' = (Active \ {running[h]}) \cup ({x} \ {None})
           /\ running' \in [Harts -> Frames \cup {None}]
<1>1. x \notin Range(running) \ {running[h], None}
  BY Zenon DEF Active
<1>2. /\ running' \in [Harts -> Frames \cup {None}]
      /\ Range(running') \ {None} = ((Range(running) \ {running[h]}) \cup {x}) \ {None}
      /\ \A g, k \in Harts : running'[g] = running'[k] /\ running'[g] /= None => g = k
  BY <1>1, HartRange, Zenon
<1>4. /\ \A i, j \in DOMAIN queue : queue[i] = queue[j] => i = j
      /\ Range(queue) \cap asleep = {}
      /\ Range(running) \cap (Range(queue) \cup asleep) = {}
  BY Zenon DEF IInv, Places
<1>5. Range(running') \ {None} = (Range(running) \ {None, running[h]}) \cup ({x} \ {None})
  BY <1>2, Zenon
<1>6. running[h] \notin Range(queue) \cup asleep
  BY RunningFacts, Zenon
<1>7. Active' = (Active \ {running[h]}) \cup ({x} \ {None})
  <2>1. /\ Active = Range(queue) \cup asleep \cup (Range(running) \ {None})
        /\ Active' = Range(queue) \cup asleep \cup (Range(running') \ {None})
    BY Zenon DEF Active
  <2> QED
    BY <1>5, <1>6, <2>1, Zenon
<1>8. None \notin Range(queue) \cup asleep
  <2>1. queue \in Seq(Frames) /\ asleep \in SUBSET Frames
    BY Zenon DEF IInv, TypeOK
  <2>2. Range(queue) \subseteq Frames
    BY <2>1 DEF Range
  <2> QED
    BY <2>1, <2>2, NoneFacts, Zenon
<1>9. Places'
  <2>1. \A i, j \in DOMAIN queue' : queue'[i] = queue'[j] => i = j
    BY <1>4, Zenon
  <2>4. Range(queue) \cup asleep \subseteq Active
    BY Zenon DEF Active
  <2>5. x \notin Range(queue) \cup asleep
    BY <1>6, <1>8, <2>4, Zenon
  <2>6. ASSUME NEW r \in Range(running'), r \in Range(queue) \cup asleep PROVE FALSE
    <3>1. r \in Range(running') \ {None}
      BY <1>8, <2>6, Zenon
    <3>2. r \in Range(running) \/ r = x
      BY <1>5, <3>1, Zenon
    <3> QED
      BY <1>4, <2>5, <2>6, <3>2, Zenon
  <2> QED
    BY <1>2, <1>4, <2>1, <2>6, Zenon DEF Places
<1> QED
  BY <1>2, <1>7, <1>9, Zenon

\* What a frame on a hart owns is not active.
LEMMA OnlyActive ==
    ASSUME IInv, NEW f \in Active, NEW g \in Active, g \in Frames, f \in Above(owner, g)
    PROVE  g = f
<1>1. f \in Frames
  BY CallerFacts, AboveFacts, Zenon
<1>2. f \in Above(owner, f)
  BY <1>1, CallerFacts, AboveFacts, Zenon
<1> QED
  BY <1>2, Zenon DEF IInv, InvTrees

LEMMA ActiveFrames ==
    ASSUME TypeOK
    PROVE  Active \subseteq Frames /\ Range(queue) \cup asleep \subseteq Active
<1>1. Range(queue) \subseteq Frames /\ Range(running) \subseteq Frames \cup {None}
  BY DEF TypeOK, Range
<1> QED
  BY <1>1, Zenon DEF TypeOK, Active

\* The frame f of a hart is left for x, further up its stack, or for the
\* scheduler, and frames below f are destroyed.
StackStep(h, x, S, st) ==
    /\ S \in SUBSET Frames /\ Subtree(S) /\ Begun(st) /\ Destroy(S, st)
    /\ \A y \in S : running[h] \in Above(owner, y)
    /\ \/ /\ x \in Above(owner, running[h]) \ S
          /\ status[x] /= "init"
       \/ x = None /\ executor[running[h]] /\ running[h] \in S
    /\ running' = [running EXCEPT ![h] = x] /\ queue' = queue /\ asleep' = asleep

LEMMA StackStepKeeps ==
    ASSUME IInv, NEW h \in Harts, running[h] /= None, NEW x, NEW S, NEW st, StackStep(h, x, S, st)
    PROVE  IInv' /\ Active' = (Active \ {running[h]}) \cup ({x} \ {None})
<1>1. PICK f : f = running[h]
  BY Zenon
<1>2. f \in Frames /\ f \in Active /\ status[f] \notin {"free", "init"} /\ f \notin Range(queue) \cup asleep
  BY <1>1, RunningFacts, Zenon
<1>3. /\ S \in SUBSET Frames /\ Subtree(S) /\ Begun(st) /\ Destroy(S, st)
      /\ \A y \in S : f \in Above(owner, y)
      /\ (x \in Above(owner, f) \ S /\ status[x] /= "init") \/ (x = None /\ executor[f] /\ f \in S)
  BY <1>1, Zenon DEF StackStep
<1>4. /\ \A y \in Frames \ S : /\ status'[y] = st[y] /\ owner'[y] = owner[y]
                               /\ no_yield'[y] = no_yield[y] /\ executor'[y] = executor[y]
      /\ \A y \in S : status'[y] = "free" /\ ~executor'[y] /\ owner'[y] = None
      /\ \A y \in Frames \ S : Above(owner', y) = Above(owner, y)
  BY <1>3, DestroyFacts, Zenon
<1>5. /\ status' \in [Frames -> Statuses] /\ owner' \in Links /\ caller' \in Links
      /\ has_error_handler' \in [Frames -> BOOLEAN]
      /\ no_yield' \in [Frames -> BOOLEAN] /\ executor' \in [Frames -> BOOLEAN]
      /\ Acyclic(owner')
      /\ \A y \in Frames : InvFrame(y)' /\ InvFlags(y)'
  BY <1>3, DestroyFacts, Zenon
<1>6. owner \in Links /\ Active \subseteq Frames /\ Range(queue) \cup asleep \subseteq Active
  BY CallerFacts, ActiveFrames, Zenon DEF IInv
<1>7. x /= None => x \in Frames /\ Above(owner, x) \subseteq Above(owner, f) /\ x \in Above(owner, x)
  BY <1>2, <1>3, <1>6, AboveTrans, AboveFacts, Zenon
<1>8. \A g \in Active : g /= f => Above(owner, g) \cap Above(owner, f) = {}
  BY <1>2, Zenon DEF IInv, InvTrees
<1>9. \A g \in Active : g /= f => g \notin S
  BY <1>2, <1>3, <1>6, OnlyActive, Zenon
<1>10. x \notin Active \ {f} /\ x \in Frames \cup {None}
  <2>1. CASE x = None
    BY <1>6, <2>1, NoneFacts, Zenon
  <2>2. CASE x /= None
    <3>1. \A g \in Active : g \in Above(owner, g)
      BY <1>6, AboveFacts, Zenon
    <3> QED
      BY <1>7, <1>8, <2>2, <3>1, Zenon
  <2> QED
    BY <2>1, <2>2, Zenon
<1>11. /\ Places' /\ Active' = (Active \ {f}) \cup ({x} \ {None})
       /\ running' \in [Harts -> Frames \cup {None}]
  BY <1>1, <1>10, HartMoves, Zenon DEF StackStep
<1>12. queue' = queue /\ asleep' = asleep
  BY Zenon DEF StackStep
<1>13. TypeOK'
  BY <1>5, <1>11, <1>12, Zenon DEF IInv, TypeOK
<1>14. \A g \in Active' : g \in Frames \ S
  BY <1>3, <1>6, <1>7, <1>9, <1>11, Zenon
<1>15. InvActive'
  <2>1. \A g \in Active : /\ status[g] /= "free"
                          /\ status[g] = "init" => executor[g] /\ g \in Range(queue)
    BY Zenon DEF IInv, InvActive
  <2>2. x /= None => status[x] /= "free"
    <3>1. \A y \in Frames : owner[y] /= None => status[owner[y]] /= "free"
      BY Zenon DEF IInv, InvFrame
    <3>2. PICK T : T = {y \in Frames : status[y] /= "free"}
      BY Zenon
    <3>3. Closed(owner, T) /\ f \in T /\ T \in SUBSET Frames
      BY <1>2, <1>6, <3>1, <3>2, Zenon DEF Closed, Links
    <3>4. Above(owner, f) \subseteq T
      BY <1>2, <1>6, <3>3, AboveFacts, Zenon
    <3> QED
      BY <1>3, <3>2, <3>4, Zenon
  <2>3. \A y \in Frames : (st[y] = "free" <=> status[y] = "free") /\ (st[y] = "init" <=> status[y] = "init")
    BY <1>3, Zenon DEF Begun
  <2>4. ASSUME NEW g \in Active'
        PROVE  /\ status'[g] /= "free"
               /\ status'[g] = "init" => executor'[g] /\ g \in Range(queue)
    <3>1. /\ g \in Frames \ S /\ status'[g] = st[g] /\ executor'[g] = executor[g]
          /\ (st[g] = "free" <=> status[g] = "free") /\ (st[g] = "init" <=> status[g] = "init")
      BY <1>4, <1>14, <2>3, Zenon
    <3>2. CASE g = x /\ x /= None
      BY <1>3, <2>2, <3>1, <3>2, Zenon
    <3>3. CASE g \in Active
      BY <2>1, <3>1, <3>3, Zenon
    <3> QED
      BY <1>11, <3>2, <3>3, Zenon
  <2>5. \A g \in Range(queue) \cup asleep : ~no_yield'[g]
    <3>1. \A g \in Range(queue) \cup asleep : g \in Frames \ S
      BY <1>2, <1>6, <1>9, Zenon
    <3> QED
      BY <1>4, <3>1, Zenon DEF IInv, InvActive
  <2> QED
    BY <1>12, <2>4, <2>5, Zenon DEF InvActive
<1>16. \A g, k \in Active' : g /= k => Above(owner', g) \cap Above(owner', k) = {}
  <2>1. \A g \in Active' : Above(owner', g) = Above(owner, g)
    BY <1>4, <1>14, Zenon
  <2>2. \A g \in Active' : g = x \/ (g \in Active /\ g /= f)
    BY <1>11, Zenon
  <2>3. \A g, k \in Active : g /= k => Above(owner, g) \cap Above(owner, k) = {}
    BY Zenon DEF IInv, InvTrees
  <2>4. x \in Active' => Above(owner, x) \subseteq Above(owner, f)
    BY <1>7, <1>14, NoneFacts, Zenon
  <2> QED
    BY <1>8, <2>1, <2>2, <2>3, <2>4, Zenon
<1>17. ASSUME NEW e \in Frames, executor'[e] PROVE \E g \in Active' : e \in Above(owner', g)
  <2>1. e \notin S /\ executor[e]
    BY <1>4, <1>17, Zenon
  <2>2. PICK g \in Active : e \in Above(owner, g)
    BY <2>1, Zenon DEF IInv, InvTrees
  <2>3. CASE g /= f
    BY <1>4, <1>9, <1>11, <1>6, <2>2, <2>3, Zenon
  <2>4. CASE g = f
    <3>1. owner[e] = None
      BY <2>1, Zenon DEF IInv, InvFrame
    <3>2. CASE x = None
      <4>1. executor[f] /\ f \in S
        BY <1>2, <1>3, <1>6, <3>2, AboveFacts, NoneFacts, Zenon
      <4>2. owner[f] = None
        BY <1>2, <4>1, Zenon DEF IInv, InvFrame
      <4>3. Above(owner, f) = {f}
        BY <1>2, <1>6, <4>2, AboveFacts, Zenon
      <4> QED
        BY <2>1, <2>2, <2>4, <4>1, <4>3, Zenon
    <3>3. CASE x /= None
      <4>1. e \in Above(owner, x)
        BY <1>2, <1>3, <1>6, <2>2, <2>4, <3>1, <3>3, RootAbove, Zenon
      <4>2. x \in Active' /\ Above(owner', x) = Above(owner, x)
        BY <1>4, <1>11, <1>14, <3>3, Zenon
      <4> QED
        BY <4>1, <4>2, Zenon
    <3> QED
      BY <3>2, <3>3, Zenon
  <2> QED
    BY <2>3, <2>4, Zenon
<1>18. InvTrees'
  BY <1>16, <1>17, Zenon DEF InvTrees
<1> QED
  BY <1>1, <1>5, <1>11, <1>13, <1>15, <1>18, Zenon DEF IInv

\* A frame that owns no task that has not begun destroys none either.
LEMMA StackStepPrompt ==
    ASSUME IInv, InvPrompt, NEW h \in Harts, running[h] /= None,
           NEW x, NEW S, NEW st, StackStep(h, x, S, st),
           \A y \in Frames : owner[y] = running[h] => status[y] /= "init"
    PROVE  InvPrompt' /\ ~NeverRan(S)
<1>1. PICK f : f = running[h]
  BY Zenon
<1>2. f \in Frames /\ f \in Active /\ status[f] \notin {"free", "init"}
  BY <1>1, RunningFacts, Zenon
<1>3. /\ S \in SUBSET Frames /\ Subtree(S) /\ Begun(st) /\ Destroy(S, st)
      /\ \A y \in S : f \in Above(owner, y)
  BY <1>1, Zenon DEF StackStep
<1>4. /\ \A y \in Frames \ S : status'[y] = st[y] /\ owner'[y] = owner[y] /\ executor'[y] = executor[y]
      /\ \A y \in S : status'[y] = "free"
  BY <1>3, DestroyFacts
<1>5. Active' = (Active \ {f}) \cup ({x} \ {None})
  BY <1>1, StackStepKeeps, Zenon
<1>6. \A y \in Uncalled : y \in Frames /\ owner[y] \in Active /\ owner[y] /= f
  BY <1>1, Zenon DEF InvPrompt, Uncalled
<1>7. Uncalled' \subseteq Uncalled \ S
  BY <1>3, <1>4, Zenon DEF Uncalled, Begun
<1>8. \A y \in Uncalled' : owner'[y] = owner[y] /\ y \in Uncalled
  BY <1>4, <1>6, <1>7, Zenon
<1>9. InvPrompt'
  BY <1>5, <1>6, <1>8, Zenon DEF InvPrompt
<1>10. ASSUME NEW y \in S, status[y] = "init" PROVE FALSE
  <2>1. y \in Frames /\ y /= f /\ f \in Above(owner, y)
    BY <1>2, <1>3, <1>10, Zenon
  <2>2. owner \in Links
    BY CallerFacts, Zenon
  <2>3. owner[y] /= None
    BY <2>1, <2>2, AboveFacts
  <2>4. owner[y] \in Frames /\ f \in Above(owner, owner[y])
    BY <2>1, <2>2, <2>3, AboveFacts DEF Links
  <2>5. y \in Uncalled
    BY <1>10, <2>1, <2>3, Zenon DEF Uncalled, IInv, InvFrame
  <2>6. owner[y] = f
    BY <1>2, <1>6, <2>4, <2>5, OnlyActive, Zenon
  <2> QED
    BY <1>6, <2>5, <2>6, Zenon
<1> QED
  BY <1>9, <1>10, Zenon DEF NeverRan

\* handle.destroy(): what goes with a frame.
LEMMA OwnedFacts ==
    ASSUME IInv, NEW f \in Frames
    PROVE  /\ Owned(f) \in SUBSET Frames /\ Subtree(Owned(f)) /\ Subtree(Owned(f) \ {f})
           /\ \A y \in Owned(f) : f \in Above(owner, y)
<1>1. owner \in Links /\ Acyclic(owner)
  BY CallerFacts, Zenon
<1>2. \A y \in Frames : y \in Owned(f) <=> status[y] /= "free" /\ f \in Above(owner, y)
  BY OwnersAre, Zenon DEF Owned, Live
<1>3. Owned(f) \in SUBSET Frames
  BY Zenon DEF Owned, Live
<1>4. ASSUME NEW x \in Frames, owner[x] \in Owned(f) PROVE x \in Owned(f) /\ x /= f
  <2>1. owner[x] \in Frames /\ owner[x] /= None /\ f \in Above(owner, owner[x])
    BY <1>2, <1>3, <1>4, NoneFacts, Zenon
  <2>2. status[x] /= "free"
    BY <2>1, Zenon DEF IInv, InvFrame
  <2>3. f \in Above(owner, x)
    BY <1>1, <2>1, AboveFacts, Zenon
  <2>4. x \notin Above(owner, owner[x])
    BY <1>1, <2>1, AboveNotBelow, Zenon
  <2> QED
    BY <1>2, <2>1, <2>2, <2>3, <2>4, Zenon
<1> QED
  BY <1>2, <1>3, <1>4, Zenon DEF Subtree

\* The frames that a failure or a return of f may continue in.
LEMMA UpFacts ==
    ASSUME IInv, NEW f \in Frames, NEW y \in Above(owner, f), caller[y] /= None
    PROVE  /\ y \in Frames /\ caller[y] \in Above(owner, f) /\ f \notin Above(owner, caller[y])
           /\ status[caller[y]] /= "init" /\ status[y] \notin {"free", "init"}
<1>1. owner \in Links /\ Acyclic(owner)
  BY CallerFacts, Zenon
<1>2. y \in Frames /\ Above(owner, y) \subseteq Above(owner, f)
  BY <1>1, AboveTrans, Zenon
<1>3. caller[y] = owner[y] /\ owner[y] /= None /\ owner[y] \in Frames
  BY <1>2, CallerFacts, Zenon
<1>4. status[caller[y]] /= "init" /\ status[y] \notin {"free", "init"}
  BY <1>2, <1>3, Zenon DEF IInv, InvFrame
<1>5. owner[y] \in Above(owner, f)
  BY <1>1, <1>3, AboveFacts, Zenon DEF Closed
<1>6. owner[f] /= None
  BY <1>1, <1>3, AboveFacts
<1>7. owner[f] \in Frames /\ Above(owner, f) = {f} \cup Above(owner, owner[f])
  BY <1>1, <1>6, AboveFacts, Zenon DEF Links
<1>8. owner[y] \in Above(owner, owner[f])
  <2>1. CASE y = f
    BY <1>1, <1>7, <2>1, AboveFacts, Zenon
  <2>2. CASE y /= f
    <3>1. y \in Above(owner, owner[f])
      BY <1>7, <2>2, Zenon
    <3> QED
      BY <1>1, <1>3, <1>7, <3>1, AboveFacts, Zenon DEF Closed
  <2> QED
    BY <2>1, <2>2, Zenon
<1>9. Above(owner, owner[y]) \subseteq Above(owner, owner[f])
  BY <1>1, <1>7, <1>8, AboveTrans, Zenon
<1>10. f \notin Above(owner, owner[f])
  BY <1>1, <1>6, AboveNotBelow, Zenon
<1> QED
  BY <1>2, <1>3, <1>4, <1>5, <1>9, <1>10, Zenon

LEMMA BodyFacts ==
    ASSUME IInv, NEW h \in Harts, NEW f, Body(h, f)
    PROVE  /\ f = running[h] /\ running[h] /= None /\ f \in Frames /\ f \in Active
           /\ status[f] \notin {"free", "init"} /\ ~executor[f]
           /\ caller[f] /= None /\ f \in Above(owner, f)
           /\ ~Deferred => \A y \in Frames : owner[y] = f => status[y] /= "init"
<1>1. f = running[h] /\ running[h] /= None /\ ~executor[f]
  BY Zenon DEF Body
<1>2. f \in Frames /\ f \in Active /\ status[f] \notin {"free", "init"}
  BY <1>1, RunningFacts, Zenon
<1>3. caller[f] /= None
  BY <1>1, <1>2, Zenon DEF IInv, InvFrame
<1> QED
  BY <1>1, <1>2, <1>3, CallerFacts, AboveFacts, Zenon DEF Body

\* A step that destroys nothing.
LEMMA NothingDestroyed ==
    ASSUME IInv, UNCHANGED <<caller, owner, has_error_handler, no_yield, executor>>,
           status' \in [Frames -> Statuses]
    PROVE  Destroy({}, status') /\ Subtree({})
<1>1. /\ caller \in [Frames -> Frames \cup {None}] /\ owner \in [Frames -> Frames \cup {None}]
      /\ has_error_handler \in [Frames -> BOOLEAN] /\ no_yield \in [Frames -> BOOLEAN]
      /\ executor \in [Frames -> BOOLEAN]
  BY Zenon DEF IInv, TypeOK, Links
<1> QED
  BY <1>1, Zenon DEF Destroy, Subtree

LEMMA ReturnSteps ==
    ASSUME IInv, NEW h \in Harts, NEW f, Return(h, f)
    PROVE  StackStep(h, caller[f], Owned(f) \ {f}, [status EXCEPT ![f] = "done"])
<1>1. /\ f = running[h] /\ f \in Frames /\ status[f] \notin {"free", "init"}
      /\ caller[f] /= None /\ f \in Above(owner, f)
  BY BodyFacts, Zenon DEF Return
<1>2. Begun([status EXCEPT ![f] = "done"])
  BY <1>1, Zenon DEF IInv, TypeOK, Begun, Statuses
<1>3. /\ Owned(f) \in SUBSET Frames /\ Subtree(Owned(f) \ {f})
      /\ \A y \in Owned(f) : f \in Above(owner, y)
  BY <1>1, OwnedFacts, Zenon
<1>4. caller[f] \in Above(owner, f) /\ f \notin Above(owner, caller[f]) /\ status[caller[f]] /= "init"
  BY <1>1, UpFacts, Zenon
<1> QED
  BY <1>1, <1>2, <1>3, <1>4, Zenon DEF StackStep, Return, ResumeCaller

LEMMA CoYieldSteps ==
    ASSUME IInv, NEW h \in Harts, NEW f, CoYield(h, f)
    PROVE  StackStep(h, caller[f], {}, status')
<1>1. /\ f = running[h] /\ f \in Frames /\ status[f] \notin {"free", "init"}
      /\ caller[f] /= None /\ f \in Above(owner, f)
  BY BodyFacts, Zenon DEF CoYield
<1>2. Begun(status') /\ status' \in [Frames -> Statuses]
  BY <1>1, Zenon DEF CoYield, IInv, TypeOK, Begun, Statuses
<1>3. Destroy({}, status') /\ Subtree({})
  BY <1>2, NothingDestroyed, Zenon DEF CoYield
<1>4. caller[f] \in Above(owner, f) /\ status[caller[f]] /= "init"
  BY <1>1, UpFacts, Zenon
<1> QED
  BY <1>1, <1>2, <1>3, <1>4, Zenon DEF StackStep, CoYield, ResumeCaller

\* Where an unwinding ends: in the caller of the guarded frame, or, the kernel
\* having panicked, nowhere.
LEMMA UnwindFacts ==
    ASSUME IInv, NEW h \in Harts, NEW f, Body(h, f), Unwind(h, f)
    PROVE  /\ Begun(Failed(f))
           /\ \E x : /\ x \in Above(owner, f) /\ status[x] /= "init"
                     /\ x = f \/ f \notin Above(owner, x)
                     /\ running' = [running EXCEPT ![h] = x] /\ queue' = queue /\ asleep' = asleep
<1>1. /\ f = running[h] /\ f \in Frames /\ status[f] \notin {"free", "init"} /\ f \in Above(owner, f)
  BY BodyFacts, Zenon
<1>2. PICK g : g = HandleFail(f)
  BY Zenon
<1>3. g = None \/ (g \in Above(owner, f) /\ caller[g] /= None)
  BY <1>1, <1>2, HandleFailFacts, Zenon
<1>4. g /= None => /\ caller[g] \in Above(owner, f) /\ f \notin Above(owner, caller[g])
                   /\ status[caller[g]] /= "init" /\ status[g] \notin {"free", "init"}
  BY <1>1, <1>3, UpFacts, Zenon
<1>5. Begun(Failed(f))
  <2>1. Failed(f) = [y \in Frames |-> IF y \in {f, g} THEN "fail" ELSE status[y]]
    BY <1>2, Zenon DEF Failed
  <2> QED
    BY <1>1, <1>4, <2>1, NoneFacts DEF IInv, TypeOK, Begun, Statuses
<1>6. running' = [running EXCEPT ![h] = IF g = None THEN f ELSE caller[g]]
  BY <1>1, <1>2, Zenon DEF Unwind
<1> QED
  BY <1>1, <1>4, <1>5, <1>6, Zenon DEF Unwind

LEMMA FailSteps ==
    ASSUME IInv, NEW h \in Harts, NEW f, Fail(h, f)
    PROVE  \E x : StackStep(h, x, Owned(f) \ {f}, Failed(f))
<1>1. f = running[h] /\ f \in Frames
  BY BodyFacts, Zenon DEF Fail
<1>2. PICK x : /\ x \in Above(owner, f) /\ status[x] /= "init"
               /\ x = f \/ f \notin Above(owner, x)
               /\ running' = [running EXCEPT ![h] = x] /\ queue' = queue /\ asleep' = asleep
  BY UnwindFacts, Zenon DEF Fail
<1>3. Begun(Failed(f))
  BY UnwindFacts, Zenon DEF Fail
<1>4. /\ Owned(f) \in SUBSET Frames /\ Subtree(Owned(f) \ {f})
      /\ \A y \in Owned(f) : f \in Above(owner, y)
  BY <1>1, OwnedFacts, Zenon
<1>5. StackStep(h, x, Owned(f) \ {f}, Failed(f))
  BY <1>1, <1>2, <1>3, <1>4, Zenon DEF StackStep, Fail
<1> QED
  BY <1>5, Zenon

LEMMA AwaitNoMemorySteps ==
    ASSUME IInv, NEW h \in Harts, NEW f, AwaitNoMemory(h, f)
    PROVE  \E x : StackStep(h, x, {}, status')
<1>1. f = running[h] /\ f \in Frames
  BY BodyFacts, Zenon DEF AwaitNoMemory
<1>2. PICK x : /\ x \in Above(owner, f) /\ status[x] /= "init"
               /\ running' = [running EXCEPT ![h] = x] /\ queue' = queue /\ asleep' = asleep
  BY UnwindFacts DEF AwaitNoMemory
<1>3. Begun(status') /\ status' \in [Frames -> Statuses]
  BY UnwindFacts DEF AwaitNoMemory, Begun
<1>4. Destroy({}, status') /\ Subtree({})
  BY <1>3, NothingDestroyed, Zenon DEF AwaitNoMemory
<1>5. StackStep(h, x, {}, status')
  BY <1>1, <1>2, <1>3, <1>4, Zenon DEF StackStep
<1> QED
  BY <1>5, Zenon

LEMMA DropSteps ==
    ASSUME IInv, NEW h \in Harts, NEW f, NEW g \in Frames, Drop(h, f, g)
    PROVE  StackStep(h, f, Owned(g), status)
<1>1. /\ f = running[h] /\ f \in Frames /\ f \in Above(owner, f)
      /\ status[f] \notin {"free", "init"} /\ owner[g] = f
  BY BodyFacts DEF Drop
<1>2. Begun(status)
  BY Zenon DEF IInv, TypeOK, Begun
<1>3. /\ Owned(g) \in SUBSET Frames /\ Subtree(Owned(g))
      /\ \A y \in Owned(g) : g \in Above(owner, y)
  BY OwnedFacts, Zenon
<1>4. owner \in Links /\ Acyclic(owner) /\ owner[g] /= None
  BY <1>1, CallerFacts, NoneFacts, Zenon
<1>5. f \notin Owned(g)
  BY <1>1, <1>3, <1>4, AboveNotBelow, Zenon
<1>6. ASSUME NEW y \in Owned(g) PROVE f \in Above(owner, y)
  <2>1. y \in Frames /\ g \in Above(owner, y)
    BY <1>3, Zenon
  <2> QED
    BY <1>1, <1>4, <2>1, AboveFacts DEF Closed
<1>7. running' = [running EXCEPT ![h] = f] /\ queue' = queue /\ asleep' = asleep
  BY <1>1, Zenon DEF Drop, placeVars, IInv, TypeOK
<1> QED
  BY <1>1, <1>2, <1>3, <1>5, <1>6, <1>7, Zenon DEF StackStep, Drop

LEMMA ExecutorReturnSteps ==
    ASSUME IInv, NEW h \in Harts, NEW e, ExecutorReturn(h, e)
    PROVE  StackStep(h, None, Owned(e), status) /\ e = running[h] /\ running[h] /= None
<1>1. e = running[h] /\ running[h] /= None /\ executor[e]
  BY Zenon DEF ExecutorReturn
<1>2. e \in Frames /\ status[e] \notin {"free", "init"}
  BY <1>1, RunningFacts, Zenon
<1>3. Begun(status)
  BY Zenon DEF IInv, TypeOK, Begun
<1>4. /\ Owned(e) \in SUBSET Frames /\ Subtree(Owned(e))
      /\ \A y \in Owned(e) : e \in Above(owner, y)
  BY <1>2, OwnedFacts, Zenon
<1>5. e \in Owned(e)
  BY <1>2, OwnersAre, CallerFacts, AboveFacts DEF Owned, Live
<1> QED
  BY <1>3, <1>4, <1>5, Zenon DEF StackStep, ExecutorReturn

\* What each step has to show: the invariant, and no panic under the clients
\* that await at once and schedule only with memory.
Keeps == IInv' /\ (~Deferred /\ Reserved /\ InvPrompt /\ ~panic => InvPrompt' /\ ~panic')

LEMMA StackKeeps ==
    ASSUME IInv, NEW h \in Harts, NEW f,
           \/ Return(h, f) \/ CoYield(h, f) \/ Fail(h, f) \/ AwaitNoMemory(h, f)
           \/ \E g \in Frames : Drop(h, f, g)
           \/ ExecutorReturn(h, f)
    PROVE  Keeps
<1>1. ASSUME NEW x, NEW S, NEW st, StackStep(h, x, S, st), f = running[h], running[h] /= None,
             ~Deferred => \A y \in Frames : owner[y] = f => status[y] /= "init",
             panic' => panic \/ NeverRan(S)
      PROVE  Keeps
  <2>1. IInv'
    BY <1>1, StackStepKeeps, Zenon
  <2>2. ~Deferred /\ InvPrompt => InvPrompt' /\ ~NeverRan(S)
    BY <1>1, StackStepPrompt, Zenon
  <2> QED
    BY <1>1, <2>1, <2>2, Zenon DEF Keeps
<1>2. Body(h, f) => /\ f = running[h] /\ running[h] /= None
                    /\ ~Deferred => \A y \in Frames : owner[y] = f => status[y] /= "init"
                    /\ HandleFail(f) /= None
  BY BodyFacts, HandleFailFacts, Zenon
<1>3. CASE Return(h, f)
  BY <1>1, <1>2, <1>3, ReturnSteps, Zenon DEF Return
<1>4. CASE CoYield(h, f)
  <2>1. StackStep(h, caller[f], {}, status') /\ Body(h, f) /\ panic' = panic
    BY <1>4, CoYieldSteps, Zenon DEF CoYield
  <2> QED
    BY <1>1, <1>2, <2>1, Zenon
<1>5. CASE Fail(h, f)
  <2>1. PICK x : StackStep(h, x, Owned(f) \ {f}, Failed(f))
    BY <1>5, FailSteps, Zenon
  <2>2. Body(h, f) /\ (panic' => NeverRan(Owned(f) \ {f}))
    BY <1>2, <1>5, Zenon DEF Fail
  <2> QED
    BY <1>1, <1>2, <2>1, <2>2, Zenon
<1>6. CASE AwaitNoMemory(h, f)
  <2>1. PICK x : StackStep(h, x, {}, status')
    BY <1>6, AwaitNoMemorySteps, Zenon
  <2>2. Body(h, f) /\ ~panic'
    BY <1>2, <1>6, Zenon DEF AwaitNoMemory
  <2> QED
    BY <1>1, <1>2, <2>1, <2>2, Zenon
<1>7. ASSUME NEW g \in Frames, Drop(h, f, g) PROVE Keeps
  <2>1. StackStep(h, f, Owned(g), status) /\ Body(h, f) /\ panic' = NeverRan(Owned(g))
    BY <1>7, DropSteps, Zenon DEF Drop
  <2> QED
    BY <1>1, <1>2, <2>1, Zenon
<1>8. CASE ExecutorReturn(h, f)
  <2>1. /\ StackStep(h, None, Owned(f), status) /\ f = running[h] /\ running[h] /= None
        /\ panic' = NeverRan(Owned(f)) /\ \A y \in Frames : owner[y] = f => status[y] /= "init"
    BY <1>8, ExecutorReturnSteps, Zenon DEF ExecutorReturn
  <2> QED
    BY <1>1, <2>1, Zenon
<1> QED
  BY <1>3, <1>4, <1>5, <1>6, <1>7, <1>8, Zenon

-----------------------------------------------------------------------------
(* Calls *)

\* task_awaiter::await_suspend: the hart goes from f to a task that f owns.
LEMMA TransferKeeps ==
    ASSUME IInv, NEW h \in Harts, NEW f, f = running[h], f /= None,
           NEW g \in Frames, owner[g] = f, status[g] \in {"init", "suspend"},
           NEW guarded \in BOOLEAN, executor[f] => guarded, Transfer(h, f, g, guarded)
    PROVE  /\ IInv' /\ Active' = (Active \ {f}) \cup {g}
           /\ owner' = owner /\ executor' = executor
           /\ \A y \in Frames : status'[y] = IF y = g THEN "running" ELSE status[y]
<1>1. f \in Frames /\ f \in Active /\ status[f] \notin {"free", "init"} /\ f \notin Range(queue) \cup asleep
  BY RunningFacts, Zenon
<1>2. /\ owner \in Links /\ caller \in Links /\ Acyclic(owner) /\ Active \subseteq Frames
      /\ \A y \in Frames : caller[y] /= None => caller[y] = owner[y] /\ caller[y] \in Frames
      /\ Range(queue) \cup asleep \subseteq Active
  BY CallerFacts, ActiveFrames, Zenon DEF IInv
<1>3. /\ owner' = owner /\ executor' = executor /\ queue' = queue /\ asleep' = asleep
      /\ running' = [running EXCEPT ![h] = g]
  BY Zenon DEF Transfer
<1>4. /\ status' = [status EXCEPT ![g] = "running"] /\ caller' = [caller EXCEPT ![g] = f]
      /\ has_error_handler' = [has_error_handler EXCEPT ![g] = guarded]
      /\ no_yield' = [no_yield EXCEPT ![g] = @ \/ no_yield[f]]
  BY Zenon DEF Transfer
<1>5. /\ status \in [Frames -> Statuses] /\ has_error_handler \in [Frames -> BOOLEAN]
      /\ no_yield \in [Frames -> BOOLEAN] /\ executor \in [Frames -> BOOLEAN]
      /\ queue \in Seq(Frames) /\ asleep \in SUBSET Frames
  BY Zenon DEF IInv, TypeOK
<1>6. /\ status' \in [Frames -> Statuses] /\ caller' \in Links
      /\ has_error_handler' \in [Frames -> BOOLEAN]
  BY <1>2, <1>4, <1>5, Zenon DEF Links, Statuses
<1>7. no_yield' \in [Frames -> BOOLEAN]
  <2>1. (no_yield[g] \/ no_yield[f]) \in BOOLEAN
    BY Zenon
  <2> QED
    BY <1>4, <1>5, <2>1, Zenon
<1>8. /\ \A y \in Frames : status'[y] = IF y = g THEN "running" ELSE status[y]
      /\ \A y \in Frames : y /= g => /\ caller'[y] = caller[y] /\ no_yield'[y] = no_yield[y]
                                     /\ has_error_handler'[y] = has_error_handler[y]
      /\ caller'[g] = f /\ has_error_handler'[g] = guarded
      /\ no_yield'[g] = (no_yield[g] \/ no_yield[f])
  BY <1>2, <1>4, <1>5, Zenon DEF Links
<1>9. Above(owner, g) = {g} \cup Above(owner, f) /\ g /= f /\ f \in Above(owner, f)
  BY <1>1, <1>2, AboveFacts, AboveNotBelow
<1>10. g \notin Active
  BY <1>1, <1>9, OnlyActive, Zenon
<1>11. /\ Places' /\ Active' = (Active \ {f}) \cup {g}
       /\ running' \in [Harts -> Frames \cup {None}]
  <2>1. g \in Frames \cup {None} /\ g \notin Active \ {running[h]} /\ {g} \ {None} = {g}
    BY <1>10, NoneFacts, Zenon
  <2> QED
    BY <1>3, <2>1, HartMoves, Zenon
<1>12. \A y \in Frames : InvFrame(y) /\ InvFlags(y)
  BY Zenon DEF IInv
<1>13. ~executor[g]
  BY <1>12, Zenon DEF InvFrame
<1>14. ASSUME NEW y \in Frames PROVE InvFrame(y)'
  <2>1. CASE y = g
    BY <1>1, <1>3, <1>8, <1>13, <2>1 DEF InvFrame
  <2>2. CASE y /= g
    <3>1. /\ InvFrame(y) /\ caller'[y] = caller[y] /\ status'[y] = status[y]
          /\ no_yield'[y] = no_yield[y]
      BY <1>8, <1>12, <2>2, Zenon
    <3>2. owner[y] /= None => owner[y] \in Frames
      BY <1>2, Zenon DEF Links
    <3>3. owner[y] /= None => status'[owner[y]] = status[owner[y]] \/ status'[owner[y]] = "running"
      BY <1>8, <3>2, Zenon
    <3> QED
      BY <1>3, <3>1, <3>3, Zenon DEF InvFrame
  <2> QED
    BY <2>1, <2>2, Zenon
<1>15. ASSUME NEW y \in Frames PROVE InvFlags(y)'
  <2>1. CASE y = g
    BY <1>1, <1>3, <1>8, <1>9, <1>13, <2>1, Zenon DEF InvFlags
  <2>2. CASE y /= g
    <3>1. /\ InvFlags(y) /\ caller'[y] = caller[y] /\ no_yield'[y] = no_yield[y]
          /\ has_error_handler'[y] = has_error_handler[y]
      BY <1>8, <1>12, <2>2, Zenon
    <3>2. CASE caller[y] = g
      <4>1. status[g] /= "init"
        BY <1>2, <1>12, <3>2, NoneFacts, Zenon DEF InvFrame
      <4>2. caller[g] = f
        BY <1>12, <4>1, Zenon DEF InvFrame
      <4>3. no_yield[f] => no_yield[g]
        BY <1>12, <4>2, Zenon DEF InvFlags
      <4>4. no_yield'[g] => no_yield[g]
        BY <1>8, <4>3, Zenon
      <4> QED
        BY <1>3, <3>1, <3>2, <4>4, Zenon DEF InvFlags
    <3>3. CASE caller[y] /= g
      <4>1. caller[y] /= None => no_yield'[caller[y]] = no_yield[caller[y]]
        BY <1>2, <1>8, <3>3, Zenon
      <4> QED
        BY <1>3, <3>1, <4>1, Zenon DEF InvFlags
    <3> QED
      BY <3>2, <3>3, Zenon
  <2> QED
    BY <2>1, <2>2, Zenon
<1>16. TypeOK'
  BY <1>2, <1>3, <1>5, <1>6, <1>7, <1>11, Zenon DEF TypeOK
<1>17. InvActive'
  <2>1. \A k \in Active : /\ status[k] /= "free"
                          /\ status[k] = "init" => executor[k] /\ k \in Range(queue)
    BY Zenon DEF IInv, InvActive
  <2>2. \A k \in Active' : /\ status'[k] /= "free"
                           /\ status'[k] = "init" => executor'[k] /\ k \in Range(queue')
    BY <1>2, <1>3, <1>8, <1>11, <2>1, Zenon
  <2>3. \A k \in Range(queue) \cup asleep : k \in Frames /\ k /= g /\ ~no_yield[k]
    BY <1>2, <1>10, Zenon DEF IInv, InvActive
  <2>4. \A k \in Range(queue') \cup asleep' : ~no_yield'[k]
    BY <1>3, <1>8, <2>3, Zenon
  <2> QED
    BY <2>2, <2>4, Zenon DEF InvActive
<1>18. InvTrees'
  <2>1. /\ \A k, l \in Active : k /= l => Above(owner, k) \cap Above(owner, l) = {}
        /\ \A e \in Frames : executor[e] => \E k \in Active : e \in Above(owner, k)
    BY Zenon DEF IInv, InvTrees
  <2>2. ASSUME NEW k \in Active, k /= f PROVE Above(owner, k) \cap Above(owner, g) = {}
    <3>1. g \in Above(owner, k) => f \in Above(owner, k)
      BY <1>2, <1>9, AboveTrans, Zenon
    <3>2. Above(owner, k) \cap Above(owner, f) = {}
      BY <1>1, <2>1, <2>2, Zenon
    <3> QED
      BY <1>9, <3>1, <3>2, Zenon
  <2>3. \A k, l \in Active' : k /= l => Above(owner, k) \cap Above(owner, l) = {}
    BY <1>11, <2>1, <2>2, Zenon
  <2>4. ASSUME NEW e \in Frames, executor[e] PROVE \E k \in Active' : e \in Above(owner, k)
    <3>1. PICK k \in Active : e \in Above(owner, k)
      BY <2>1, <2>4, Zenon
    <3> QED
      BY <1>9, <1>11, <3>1, Zenon
  <2> QED
    BY <1>3, <2>3, <2>4, Zenon DEF InvTrees
<1> QED
  BY <1>3, <1>8, <1>11, <1>14, <1>15, <1>16, <1>17, <1>18, Zenon DEF IInv

LEMMA AwaitKeeps ==
    ASSUME IInv, NEW h \in Harts, NEW f, NEW g \in Frames,
           Await(h, f, g) \/ AwaitNext(h, f, g) \/ ExecutorAwait(h, f, g)
    PROVE  Keeps
<1>1. /\ f = running[h] /\ f /= None /\ owner[g] = f /\ panic' = panic
      /\ \/ status[g] = "init"
         \/ status[g] = "suspend" /\ (~Deferred => \A y \in Frames : owner[y] = f => status[y] /= "init")
  BY Zenon DEF Await, AwaitNext, ExecutorAwait, Body, Transfer
<1>2. \E guarded \in BOOLEAN : (executor[f] => guarded) /\ Transfer(h, f, g, guarded)
  <2>1. has_error_handler[g] \in BOOLEAN /\ TRUE \in BOOLEAN
    BY Zenon DEF IInv, TypeOK
  <2> QED
    BY <2>1, Zenon DEF Await, AwaitNext, ExecutorAwait, Body
<1>3. /\ IInv' /\ Active' = (Active \ {f}) \cup {g} /\ owner' = owner /\ executor' = executor
      /\ \A y \in Frames : status'[y] = IF y = g THEN "running" ELSE status[y]
  BY <1>1, <1>2, TransferKeeps
<1>4. ~executor[g]
  BY <1>1, Zenon DEF IInv, InvFrame
<1>5. ASSUME ~Deferred, InvPrompt PROVE InvPrompt'
  <2>1. Uncalled' \subseteq Uncalled \ {g}
    BY <1>3, Zenon DEF Uncalled
  <2>2. \A y \in Uncalled : y /= g => owner[y] /= f
    BY <1>1, <1>4, <1>5, Zenon DEF InvPrompt, Uncalled
  <2> QED
    BY <1>3, <1>5, <2>1, <2>2, Zenon DEF InvPrompt
<1> QED
  BY <1>1, <1>3, <1>5, Zenon DEF Keeps

LEMMA SameFrames ==
    ASSUME IInv, UNCHANGED <<frameVars, placeVars>>
    PROVE  IInv' /\ Active' = Active /\ (InvPrompt => InvPrompt')
<1>1. /\ UNCHANGED <<status, caller, owner, has_error_handler, no_yield, executor>>
      /\ UNCHANGED <<queue, asleep, running>>
  BY Zenon DEF frameVars, placeVars
<1>2. Active' = Active
  BY <1>1, Zenon DEF Active
<1>3. TypeOK' /\ Places'
  BY <1>1, Zenon DEF IInv, TypeOK, Places
<1>4. \A f \in Frames : InvFrame(f)' /\ InvFlags(f)'
  BY <1>1, Zenon DEF IInv, InvFrame, InvFlags
<1>5. Acyclic(owner')
  BY <1>1, Zenon DEF IInv
<1>6. InvActive' /\ InvTrees'
  BY <1>1, <1>2, Zenon DEF IInv, InvActive, InvTrees
<1>7. InvPrompt => InvPrompt'
  BY <1>1, <1>2, Zenon DEF InvPrompt, Uncalled
<1> QED
  BY <1>2, <1>3, <1>4, <1>5, <1>6, <1>7, Zenon DEF IInv

\* A new frame g hangs below f.
Leaf(o, g, f, p) ==
    /\ o \in Links /\ Acyclic(o) /\ g \in Frames /\ o[g] = None
    /\ \A x \in Frames : o[x] /= g
    /\ f \in Frames /\ f /= g /\ p = [o EXCEPT ![g] = f]

LEMMA LeafFacts ==
    ASSUME NEW o, NEW g, NEW f, NEW p, Leaf(o, g, f, p)
    PROVE  /\ p \in Links /\ Acyclic(p) /\ p[g] = f
           /\ \A x \in Frames : x /= g => p[x] = o[x] /\ Above(p, x) = Above(o, x) /\ g \notin Above(o, x)
<1>1. /\ o \in Links /\ Acyclic(o) /\ g \in Frames /\ o[g] = None
      /\ \A x \in Frames : o[x] /= g
      /\ f \in Frames /\ f /= g /\ p = [o EXCEPT ![g] = f]
  BY Zenon DEF Leaf
<1>2. p \in Links /\ p[g] = f /\ \A x \in Frames : x /= g => p[x] = o[x]
  BY <1>1, Zenon DEF Links
<1>3. Acyclic(p)
  <2> SUFFICES ASSUME NEW T \in SUBSET Frames, T /= {} PROVE \E x \in T : p[x] \notin T
    BY Zenon DEF Acyclic
  <2>1. CASE T \ {g} = {}
    BY <1>1, <1>2, <2>1, Zenon
  <2>2. CASE T \ {g} /= {}
    <3>1. T \ {g} \in SUBSET Frames
      BY Zenon
    <3>2. PICK x \in T \ {g} : o[x] \notin T \ {g}
      BY <1>1, <2>2, <3>1, Zenon DEF Acyclic
    <3> QED
      BY <1>1, <1>2, <3>2, Zenon
  <2> QED
    BY <2>1, <2>2, Zenon
<1>4. ASSUME NEW x \in Frames, x /= g PROVE Above(p, x) = Above(o, x) /\ g \notin Above(o, x)
  <2>1. Closed(o, Frames \ {g}) /\ Frames \ {g} \in SUBSET Frames
    BY <1>1, Zenon DEF Closed, Links
  <2>2. Above(o, x) \subseteq Frames \ {g}
    BY <1>1, <1>4, <2>1, AboveFacts
  <2>3. \A y \in Above(o, x) : p[y] = o[y]
    BY <1>2, <2>2, Zenon
  <2> QED
    BY <1>1, <1>2, <1>4, <2>2, <2>3, AboveSame, Zenon
<1> QED
  BY <1>2, <1>3, <1>4, Zenon

\* Nothing refers to free memory.
LEMMA FreshFacts ==
    ASSUME IInv, NEW g \in Free
    PROVE  /\ g \in Frames /\ status[g] = "free" /\ owner[g] = None /\ caller[g] = None
           /\ ~no_yield[g] /\ ~executor[g] /\ g \notin Active
           /\ \A x \in Frames : owner[x] /= g /\ caller[x] /= g
<1>1. g \in Frames /\ status[g] = "free"
  BY Zenon DEF Free, Live
<1>2. \A x \in Frames : InvFrame(x)
  BY Zenon DEF IInv
<1>3. \A x \in Frames : owner[x] /= g
  BY <1>1, <1>2, NoneFacts, Zenon DEF InvFrame
<1>4. \A x \in Frames : caller[x] /= g
  BY <1>1, <1>3, CallerFacts, NoneFacts, Zenon
<1> QED
  BY <1>1, <1>2, <1>3, <1>4, Zenon DEF InvFrame, IInv, InvActive

LEMMA CreateKeeps ==
    ASSUME IInv, NEW h \in Harts, NEW f, NEW guarded \in BOOLEAN, Create(h, f, guarded)
    PROVE  Keeps
<1>1. /\ f \in Frames /\ f \in Active /\ status[f] \notin {"free", "init"}
      /\ ~Deferred => \A y \in Frames : owner[y] = f => status[y] /= "init"
  BY BodyFacts, Zenon DEF Create
<1>2. PICK g \in Free : /\ status' = [status EXCEPT ![g] = "init"]
                        /\ owner' = [owner EXCEPT ![g] = f]
                        /\ has_error_handler' = [has_error_handler EXCEPT ![g] = guarded]
  BY Zenon DEF Create, Fresh
<1>3. UNCHANGED <<caller, no_yield, executor, queue, asleep, running, panic>>
  BY Zenon DEF Create, placeVars
<1>4. /\ g \in Frames /\ status[g] = "free" /\ owner[g] = None /\ caller[g] = None
      /\ ~no_yield[g] /\ ~executor[g] /\ g \notin Active
      /\ \A x \in Frames : owner[x] /= g /\ caller[x] /= g
  BY FreshFacts, Zenon
<1>5. f /= g /\ owner \in Links /\ Acyclic(owner) /\ Active \subseteq Frames
  BY <1>1, <1>4, CallerFacts, ActiveFrames, Zenon DEF IInv
<1>6. /\ owner' \in Links /\ Acyclic(owner') /\ owner'[g] = f
      /\ \A x \in Frames : x /= g => owner'[x] = owner[x] /\ Above(owner', x) = Above(owner, x)
  <2>1. Leaf(owner, g, f, owner')
    BY <1>1, <1>2, <1>4, <1>5, Zenon DEF Leaf
  <2> QED
    BY <2>1, LeafFacts
<1>7. /\ status' \in [Frames -> Statuses] /\ has_error_handler' \in [Frames -> BOOLEAN]
      /\ status'[g] = "init" /\ \A x \in Frames : x /= g => /\ status'[x] = status[x]
                                                            /\ has_error_handler'[x] = has_error_handler[x]
  BY <1>2, <1>4, Zenon DEF IInv, TypeOK, Statuses
<1>8. TypeOK'
  BY <1>3, <1>6, <1>7, Zenon DEF IInv, TypeOK
<1>9. Active' = Active /\ Places'
  BY <1>3, Zenon DEF Active, IInv, Places
<1>10. ASSUME NEW x \in Frames PROVE InvFrame(x)' /\ InvFlags(x)'
  <2>1. InvFrame(x) /\ InvFlags(x) /\ owner[x] /= g /\ caller[x] /= g
    BY <1>4, Zenon DEF IInv
  <2>2. owner[x] /= None => owner[x] \in Frames /\ status'[owner[x]] = status[owner[x]]
    BY <1>5, <1>7, <2>1, Zenon DEF Links
  <2>3. CASE x = g
    BY <1>1, <1>3, <1>4, <1>5, <1>6, <1>7, <2>3, NoneFacts, Zenon DEF InvFrame, InvFlags
  <2>4. CASE x /= g
    BY <1>3, <1>6, <1>7, <2>1, <2>2, <2>4, Zenon DEF InvFrame, InvFlags
  <2> QED
    BY <2>3, <2>4, Zenon
<1>11. InvActive'
  BY <1>3, <1>4, <1>5, <1>7, <1>9, Zenon DEF IInv, InvActive
<1>12. InvTrees'
  <2>1. \A k \in Active : Above(owner', k) = Above(owner, k)
    BY <1>4, <1>5, <1>6, Zenon
  <2> QED
    BY <1>3, <1>9, <2>1, Zenon DEF IInv, InvTrees
<1>13. IInv'
  BY <1>6, <1>8, <1>9, <1>10, <1>11, <1>12, Zenon DEF IInv
<1>14. ASSUME ~Deferred, InvPrompt PROVE InvPrompt'
  <2>1. \A x \in Uncalled' : x = g \/ (x \in Uncalled /\ owner'[x] = owner[x])
    BY <1>3, <1>6, <1>7, Zenon DEF Uncalled
  <2>2. \A x \in Uncalled : owner[x] /= f
    BY <1>1, <1>14, Zenon DEF Uncalled
  <2> QED
    BY <1>1, <1>6, <1>9, <1>14, <2>1, <2>2 DEF InvPrompt
<1> QED
  BY <1>3, <1>13, <1>14, Zenon DEF Keeps

-----------------------------------------------------------------------------
(* Scheduling *)

LEMMA AppendFacts ==
    ASSUME NEW q \in Seq(Frames), NEW x \in Frames, x \notin Range(q),
           \A i, j \in DOMAIN q : q[i] = q[j] => i = j,
           NEW r, r = Append(q, x)
    PROVE  /\ r \in Seq(Frames) /\ Range(r) = Range(q) \cup {x}
           /\ \A i, j \in DOMAIN r : r[i] = r[j] => i = j
<1>1. /\ Len(q) \in Nat /\ DOMAIN q = 1 .. Len(q) /\ DOMAIN r = 1 .. (Len(q) + 1)
      /\ r \in Seq(Frames) /\ r[Len(q) + 1] = x /\ \A i \in 1 .. Len(q) : r[i] = q[i]
  OBVIOUS
<1>2. \A i \in 1 .. Len(q) : q[i] /= x /\ q[i] \in Range(q)
  BY DEF Range
<1>3. \A i \in 1 .. (Len(q) + 1) : i = Len(q) + 1 \/ i \in 1 .. Len(q)
  BY <1>1
<1>4. \A i, j \in DOMAIN r : r[i] = r[j] => i = j
  BY <1>2
<1>5. Range(r) \subseteq Range(q) \cup {x}
  BY <1>1, <1>2, <1>3 DEF Range
<1>6. Range(q) \cup {x} \subseteq Range(r)
  <2>1. Len(q) + 1 \in DOMAIN r /\ \A i \in DOMAIN q : i \in DOMAIN r
    OBVIOUS
  <2> QED
    BY <1>1, <2>1 DEF Range
<1> QED
  BY <1>1, <1>4, <1>5, <1>6, Zenon

LEMMA TailFacts ==
    ASSUME NEW q \in Seq(Frames), q /= <<>>, \A i, j \in DOMAIN q : q[i] = q[j] => i = j,
           NEW r, r = Tail(q)
    PROVE  /\ r \in Seq(Frames) /\ Head(q) \in Frames /\ Head(q) \in Range(q)
           /\ Range(r) = Range(q) \ {Head(q)}
           /\ \A i, j \in DOMAIN r : r[i] = r[j] => i = j
<1>1. /\ Len(q) \in Nat \ {0} /\ DOMAIN q = 1 .. Len(q) /\ DOMAIN r = 1 .. (Len(q) - 1)
      /\ r \in Seq(Frames) /\ Head(q) = q[1] /\ \A i \in 1 .. (Len(q) - 1) : r[i] = q[i + 1]
  OBVIOUS
<1>2. 1 \in DOMAIN q /\ Head(q) \in Frames /\ Head(q) \in Range(q)
  BY <1>1 DEF Range
<1>3. \A i \in DOMAIN r : i \in Nat /\ i + 1 \in DOMAIN q /\ i + 1 /= 1
  BY <1>1
<1>4. \A i, j \in DOMAIN r : r[i] = r[j] => i = j
  <2> SUFFICES ASSUME NEW i \in DOMAIN r, NEW j \in DOMAIN r, r[i] = r[j] PROVE i = j
    BY Zenon
  <2>1. q[i + 1] = q[j + 1]
    BY <1>1, Zenon
  <2>2. i + 1 = j + 1
    BY <1>3, <2>1, Zenon
  <2> QED
    BY <1>3, <2>2
<1>5. \A i \in DOMAIN r : r[i] \in Range(q) /\ r[i] /= Head(q)
  <2> SUFFICES ASSUME NEW i \in DOMAIN r PROVE r[i] \in Range(q) /\ r[i] /= Head(q)
    BY Zenon
  <2>1. r[i] = q[i + 1] /\ i + 1 \in DOMAIN q /\ i + 1 /= 1
    BY <1>1, <1>3, Zenon
  <2> QED
    BY <1>1, <1>2, <2>1, Zenon DEF Range
<1>6. ASSUME NEW v \in Range(q), v /= Head(q) PROVE v \in Range(r)
  <2>1. PICK i \in DOMAIN q : v = q[i]
    BY Zenon DEF Range
  <2>2. i - 1 \in DOMAIN r /\ r[i - 1] = v
    BY <1>6, <2>1
  <2> QED
    BY <2>2, Zenon DEF Range
<1>7. Range(r) = Range(q) \ {Head(q)}
  BY <1>6 DEF Range
<1> QED
  BY <1>1, <1>2, <1>4, <1>7, Zenon

LEMMA SpawnKeeps ==
    ASSUME IInv, NEW ny \in BOOLEAN, Spawn(ny)
    PROVE  Keeps
<1>1. PICK p \in Free :
         /\ Reserved => Free /= {p}
         /\ \/ /\ Free = {p} /\ panic' = TRUE
               /\ UNCHANGED <<frameVars, queue>>
            \/ \E e \in Free \ {p} :
                 /\ status' = [status EXCEPT ![p] = "init", ![e] = "init"]
                 /\ owner' = [owner EXCEPT ![p] = e]
                 /\ no_yield' = [no_yield EXCEPT ![p] = ny]
                 /\ executor' = [executor EXCEPT ![e] = TRUE]
                 /\ queue' = Append(queue, e)
                 /\ UNCHANGED <<caller, has_error_handler, panic>>
  BY Zenon DEF Spawn, Fresh
<1>2. asleep' = asleep /\ running' = running
  BY Zenon DEF Spawn
<1>3. CASE Free = {p} /\ UNCHANGED <<frameVars, queue>>
  <2>1. IInv'
    BY <1>2, <1>3, SameFrames, Zenon DEF placeVars
  <2> QED
    BY <1>1, <1>3, <2>1, Zenon DEF Keeps
<1>4. ASSUME NEW e \in Free \ {p},
             status' = [status EXCEPT ![p] = "init", ![e] = "init"],
             owner' = [owner EXCEPT ![p] = e],
             no_yield' = [no_yield EXCEPT ![p] = ny],
             executor' = [executor EXCEPT ![e] = TRUE],
             queue' = Append(queue, e),
             UNCHANGED <<caller, has_error_handler, panic>>
      PROVE  Keeps
  <2>1. /\ p \in Frames /\ status[p] = "free" /\ owner[p] = None /\ caller[p] = None
        /\ ~no_yield[p] /\ ~executor[p] /\ p \notin Active
        /\ \A x \in Frames : owner[x] /= p /\ caller[x] /= p
    BY FreshFacts, Zenon
  <2>2. /\ e \in Frames /\ e /= p /\ status[e] = "free" /\ owner[e] = None /\ caller[e] = None
        /\ ~no_yield[e] /\ ~executor[e] /\ e \notin Active
        /\ \A x \in Frames : owner[x] /= e /\ caller[x] /= e
    BY FreshFacts, Zenon
  <2>3. owner \in Links /\ Acyclic(owner) /\ Active \subseteq Frames
    BY CallerFacts, ActiveFrames, Zenon DEF IInv
  <2>4. /\ owner' \in Links /\ Acyclic(owner') /\ owner'[p] = e
        /\ \A x \in Frames : x /= p => owner'[x] = owner[x] /\ Above(owner', x) = Above(owner, x)
    <3>1. Leaf(owner, p, e, owner')
      BY <1>4, <2>1, <2>2, <2>3, Zenon DEF Leaf
    <3> QED
      BY <3>1, LeafFacts
  <2>5. /\ status \in [Frames -> Statuses] /\ no_yield \in [Frames -> BOOLEAN]
        /\ executor \in [Frames -> BOOLEAN] /\ queue \in Seq(Frames)
    BY Zenon DEF IInv, TypeOK
  <2>6. /\ status' \in [Frames -> Statuses] /\ no_yield' \in [Frames -> BOOLEAN]
        /\ executor' \in [Frames -> BOOLEAN]
    BY <1>4, <2>2, <2>5, Zenon DEF Statuses
  <2>7. /\ status'[p] = "init" /\ status'[e] = "init" /\ no_yield'[p] = ny /\ executor'[e] = TRUE
        /\ \A x \in Frames : x /= p => no_yield'[x] = no_yield[x]
        /\ \A x \in Frames : x /= e => executor'[x] = executor[x]
        /\ \A x \in Frames \ {p, e} : status'[x] = status[x]
    BY <1>4, <2>1, <2>2, <2>5, Zenon
  <2>8. e \notin Range(queue) /\ e \notin asleep /\ e \notin Range(running)
    BY <2>2, NoneFacts, Zenon DEF Active
  <2>9. /\ queue' \in Seq(Frames) /\ Range(queue') = Range(queue) \cup {e}
        /\ \A i, j \in DOMAIN queue' : queue'[i] = queue'[j] => i = j
    BY <1>4, <2>2, <2>5, <2>8, AppendFacts, Zenon DEF IInv, Places
  <2>10. TypeOK'
    BY <1>2, <1>4, <2>4, <2>6, <2>9, Zenon DEF IInv, TypeOK
  <2>11. Places'
    <3>1. /\ Range(queue) \cap asleep = {} /\ Range(running) \cap (Range(queue) \cup asleep) = {}
          /\ \A g, k \in Harts : running[g] = running[k] /\ running[g] /= None => g = k
      BY Zenon DEF IInv, Places
    <3> QED
      BY <1>2, <2>8, <2>9, <3>1, Zenon DEF Places
  <2>12. Active' = Active \cup {e}
    BY <1>2, <2>9, Zenon DEF Active
  <2>13. ASSUME NEW x \in Frames PROVE InvFrame(x)' /\ InvFlags(x)'
    <3>1. InvFrame(x) /\ InvFlags(x) /\ owner[x] \notin {p, e} /\ caller[x] \notin {p, e}
      BY <2>1, <2>2, Zenon DEF IInv
    <3>2. /\ owner[x] /= None => owner[x] \in Frames \ {p, e}
          /\ caller[x] /= None => caller[x] \in Frames \ {p, e}
      BY <3>1, CallerFacts, Zenon DEF Links
    <3>3. CASE x = p
      BY <1>4, <2>1, <2>2, <2>4, <2>7, <3>3, NoneFacts DEF InvFrame, InvFlags
    <3>4. CASE x = e
      BY <1>4, <2>1, <2>2, <2>4, <2>7, <3>4, NoneFacts, ZenonT(60) DEF InvFrame, InvFlags
    <3>5. CASE x \notin {p, e}
      <4>1. /\ status'[x] = status[x] /\ owner'[x] = owner[x] /\ caller'[x] = caller[x]
            /\ no_yield'[x] = no_yield[x] /\ executor'[x] = executor[x]
            /\ has_error_handler'[x] = has_error_handler[x]
            /\ owner[x] /= None => status'[owner[x]] = status[owner[x]]
            /\ caller[x] /= None => /\ no_yield'[caller[x]] = no_yield[caller[x]]
                                    /\ executor'[caller[x]] = executor[caller[x]]
        BY <1>4, <2>4, <2>7, <3>2, <3>5, Zenon
      <4> QED
        BY <3>1, <4>1, Zenon DEF InvFrame, InvFlags
    <3> QED
      BY <3>3, <3>4, <3>5, Zenon
  <2>14. InvActive'
    <3>1. /\ \A f \in Active : /\ f \in Frames \ {p, e} /\ status[f] /= "free"
                               /\ status[f] = "init" => executor[f] /\ f \in Range(queue)
          /\ \A f \in Range(queue) \cup asleep : ~no_yield[f] /\ f \in Frames \ {p, e}
      BY <2>1, <2>2, ActiveFrames, Zenon DEF IInv, InvActive
    <3>2. \A f \in Active' : /\ status'[f] /= "free"
                             /\ status'[f] = "init" => executor'[f] /\ f \in Range(queue')
      BY <2>7, <2>9, <2>12, <3>1, Zenon
    <3>3. \A f \in Range(queue') \cup asleep' : ~no_yield'[f]
      BY <1>2, <2>2, <2>7, <2>9, <3>1, Zenon
    <3> QED
      BY <3>2, <3>3, Zenon DEF InvActive
  <2>15. InvTrees'
    <3>1. \A k \in Active : k \in Frames \ {p, e} /\ Above(owner', k) = Above(owner, k)
      BY <2>1, <2>2, <2>3, <2>4, Zenon
    <3>2. Above(owner', e) = {e}
      BY <2>2, <2>4, AboveFacts
    <3>3. ASSUME NEW k \in Active PROVE e \notin Above(owner, k)
      <4>1. Closed(owner, Frames \ {e}) /\ k \in Frames \ {e} /\ Frames \ {e} \in SUBSET Frames
        BY <2>2, <2>3, Zenon DEF Closed, Links
      <4> QED
        BY <2>3, <4>1, AboveFacts, Zenon
    <3>4. \A f, g \in Active' : f /= g => Above(owner', f) \cap Above(owner', g) = {}
      BY <2>12, <3>1, <3>2, <3>3 DEF IInv, InvTrees
    <3>5. \A x \in Frames : executor'[x] => \E f \in Active' : x \in Above(owner', f)
      BY <2>7, <2>12, <3>1, <3>2, Zenon DEF IInv, InvTrees
    <3> QED
      BY <3>4, <3>5, Zenon DEF InvTrees
  <2>16. IInv'
    BY <2>4, <2>10, <2>11, <2>13, <2>14, <2>15, Zenon DEF IInv
  <2>17. ASSUME InvPrompt PROVE InvPrompt'
    <3>1. \A x \in Uncalled' : x = p \/ (x \in Uncalled /\ x \in Frames /\ owner'[x] = owner[x])
      BY <2>4, <2>7, Zenon DEF Uncalled
    <3> QED
      BY <2>2, <2>4, <2>12, <2>17, <3>1 DEF InvPrompt
  <2> QED
    BY <1>4, <2>16, <2>17, Zenon DEF Keeps
<1> QED
  BY <1>1, <1>3, <1>4, Zenon

\* Active frames change places; the one that a hart resumes is running then.
Moved ==
    /\ UNCHANGED <<caller, owner, has_error_handler, no_yield, executor>>
    /\ status' \in [Frames -> Statuses]
    /\ \A y \in Frames : \/ status'[y] = status[y]
                         \/ status[y] /= "free" /\ (status[y] = "init" => executor[y]) /\ status'[y] = "running"
    /\ queue' \in Seq(Frames) /\ asleep' \in SUBSET Frames /\ running' \in [Harts -> Frames \cup {None}]
    /\ Active' = Active /\ Places'
    /\ \A y \in Active : status'[y] = "init" => y \in Range(queue')
    /\ \A y \in Range(queue') \cup asleep' : ~no_yield[y]

LEMMA MovedKeeps ==
    ASSUME IInv, Moved, panic' = panic
    PROVE  Keeps
<1>1. /\ UNCHANGED <<caller, owner, has_error_handler, no_yield, executor>>
      /\ status' \in [Frames -> Statuses]
      /\ \A y \in Frames : \/ status'[y] = status[y]
                           \/ status[y] /= "free" /\ (status[y] = "init" => executor[y]) /\ status'[y] = "running"
      /\ Active' = Active
  BY Zenon DEF Moved
<1>2. TypeOK' /\ Places'
  BY Zenon DEF Moved, IInv, TypeOK
<1>3. ASSUME NEW x \in Frames PROVE InvFrame(x)' /\ InvFlags(x)'
  <2>1. InvFrame(x) /\ InvFlags(x)
    BY Zenon DEF IInv
  <2>2. owner[x] /= None => owner[x] \in Frames
    BY CallerFacts, Zenon DEF Links
  <2>3. InvFlags(x)'
    BY <1>1, <2>1, Zenon DEF InvFlags
  <2>4. InvFrame(x)'
    BY <1>1, <2>1, <2>2, Zenon DEF InvFrame
  <2> QED
    BY <2>3, <2>4, Zenon
<1>4. Acyclic(owner') /\ InvTrees'
  BY <1>1, Zenon DEF IInv, InvTrees
<1>5. InvActive'
  <2>1. \A f \in Active : /\ f \in Frames /\ status[f] /= "free"
                          /\ status[f] = "init" => executor[f] /\ f \in Range(queue)
    BY ActiveFrames, Zenon DEF IInv, InvActive
  <2>2. \A f \in Active' : /\ status'[f] /= "free"
                           /\ status'[f] = "init" => executor'[f] /\ f \in Range(queue')
    BY <2>1, Zenon DEF Moved
  <2>3. \A f \in Range(queue') \cup asleep' : ~no_yield'[f]
    BY Zenon DEF Moved
  <2> QED
    BY <2>2, <2>3, Zenon DEF InvActive
<1>6. IInv'
  BY <1>2, <1>3, <1>4, <1>5, Zenon DEF IInv
<1>7. ASSUME InvPrompt PROVE InvPrompt'
  <2>1. Uncalled' \subseteq Uncalled
    BY <1>1, Zenon DEF Uncalled
  <2> QED
    BY <1>1, <1>7, <2>1, Zenon DEF InvPrompt
<1> QED
  BY <1>6, <1>7, Zenon DEF Keeps

LEMMA PlaceFacts ==
    ASSUME IInv
    PROVE  /\ queue \in Seq(Frames) /\ asleep \in SUBSET Frames
           /\ running \in [Harts -> Frames \cup {None}] /\ status \in [Frames -> Statuses]
           /\ \A i, j \in DOMAIN queue : queue[i] = queue[j] => i = j
           /\ \A g, h \in Harts : running[g] = running[h] /\ running[g] /= None => g = h
           /\ Range(queue) \cap asleep = {}
           /\ Range(running) \cap (Range(queue) \cup asleep) = {}
           /\ None \notin Range(queue) \cup asleep
           /\ \A f \in Active : f \in Frames /\ (status[f] = "init" => executor[f] /\ f \in Range(queue))
           /\ \A f \in Range(queue) \cup asleep : f \in Active /\ ~no_yield[f] /\ status[f] /= "free"
<1>1. Active \subseteq Frames /\ Range(queue) \cup asleep \subseteq Active
  BY ActiveFrames, Zenon DEF IInv
<1> QED
  BY <1>1, NoneFacts, Zenon DEF IInv, TypeOK, Places, InvActive

LEMMA ResumeMoves ==
    ASSUME IInv, NEW h \in Harts, Resume(h)
    PROVE  Moved /\ panic' = panic
<1>1. PICK x : x = Head(queue)
  BY Zenon
<1>2. /\ queue' \in Seq(Frames) /\ x \in Frames /\ x \in Range(queue)
      /\ Range(queue') = Range(queue) \ {x}
      /\ \A i, j \in DOMAIN queue' : queue'[i] = queue'[j] => i = j
  BY <1>1, PlaceFacts, TailFacts, Zenon DEF Resume
<1>3. running[h] = None /\ running' = [running EXCEPT ![h] = x] /\ asleep' = asleep /\ panic' = panic
      /\ status' = [status EXCEPT ![x] = "running"]
      /\ UNCHANGED <<caller, owner, has_error_handler, no_yield, executor>>
  BY <1>1, Zenon DEF Resume
<1>4. x \notin Range(running)
  BY <1>2, PlaceFacts, Zenon
<1>5. /\ running' \in [Harts -> Frames \cup {None}]
      /\ Range(running') \ {None} = ((Range(running) \ {running[h]}) \cup {x}) \ {None}
      /\ \A g, k \in Harts : running'[g] = running'[k] /\ running'[g] /= None => g = k
  BY <1>2, <1>3, <1>4, HartRange, Zenon
<1>6. x \notin asleep /\ x /= None
  BY <1>2, PlaceFacts, Zenon
<1>7. Active' = Active
  BY <1>2, <1>3, <1>5, <1>6, Zenon DEF Active
<1>8. Places'
  <2>1. Range(queue') \cap asleep' = {}
    BY <1>2, <1>3, PlaceFacts, Zenon
  <2>2. ASSUME NEW r \in Range(running'), r \in Range(queue') \cup asleep' PROVE FALSE
    <3>1. r \in Range(queue) \cup asleep /\ r /= x /\ r /= None
      BY <1>2, <1>3, <1>6, <2>2, PlaceFacts
    <3>2. r \in Range(running)
      BY <1>5, <3>1, Zenon
    <3> QED
      BY <3>1, <3>2, PlaceFacts, Zenon
  <2> QED
    BY <1>2, <1>5, <2>1, <2>2, Zenon DEF Places
<1>9. /\ status' \in [Frames -> Statuses] /\ status'[x] = "running"
      /\ \A y \in Frames : y /= x => status'[y] = status[y]
  BY <1>2, <1>3, PlaceFacts, Zenon DEF Statuses
<1>10. x \in Active /\ status[x] /= "free" /\ (status[x] = "init" => executor[x])
  BY <1>2, PlaceFacts, Zenon
<1>11. \A y \in Active : status'[y] = "init" => y \in Range(queue')
  BY <1>2, <1>9, PlaceFacts, Zenon
<1>12. \A y \in Range(queue') \cup asleep' : ~no_yield[y]
  BY <1>2, <1>3, PlaceFacts, Zenon
<1>13. asleep' \in SUBSET Frames
  BY <1>3, PlaceFacts, Zenon
<1>14. Moved
  BY <1>2, <1>3, <1>5, <1>7, <1>8, <1>9, <1>10, <1>11, <1>12, <1>13, Zenon DEF Moved
<1> QED
  BY <1>3, <1>14, Zenon

\* Between the queue and the wait queues frames move by themselves or with a hart.
LEMMA WakeUpMoves ==
    ASSUME IInv, NEW f, WakeUp(f)
    PROVE  Moved /\ panic' = panic
<1>1. f \in asleep /\ f \in Frames /\ f \notin Range(queue) /\ f \notin Range(running)
  BY PlaceFacts, Zenon DEF WakeUp
<1>2. asleep' = asleep \ {f} /\ queue' = Append(queue, f) /\ running' = running /\ status' = status
      /\ panic' = panic /\ UNCHANGED <<caller, owner, has_error_handler, no_yield, executor>>
  BY Zenon DEF WakeUp, frameVars
<1>3. /\ queue' \in Seq(Frames) /\ Range(queue') = Range(queue) \cup {f}
      /\ \A i, j \in DOMAIN queue' : queue'[i] = queue'[j] => i = j
  BY <1>1, <1>2, PlaceFacts, AppendFacts, ZenonT(60)
<1>4. Active' = Active
  BY <1>1, <1>2, <1>3 DEF Active
<1>5. Places'
  BY <1>1, <1>2, <1>3 DEF IInv, Places
<1>6. \A y \in Active : status'[y] = "init" => y \in Range(queue')
  BY <1>2, <1>3, PlaceFacts, Zenon
<1>7. \A y \in Range(queue') \cup asleep' : ~no_yield[y]
  BY <1>1, <1>2, <1>3, PlaceFacts
<1>8. status' \in [Frames -> Statuses] /\ asleep' \in SUBSET Frames /\ running' \in [Harts -> Frames \cup {None}]
  BY <1>2, PlaceFacts, Zenon
<1>9. Moved
  BY <1>2, <1>3, <1>4, <1>5, <1>6, <1>7, <1>8, Zenon DEF Moved
<1> QED
  BY <1>2, <1>9, Zenon

LEMMA SuspendMoves ==
    ASSUME IInv, NEW h \in Harts, NEW f, Yield(h, f) \/ Sleep(h, f)
    PROVE  Moved /\ panic' = panic
<1>1. /\ f = running[h] /\ f \in Frames /\ f /= None /\ f \in Active /\ ~no_yield[f]
      /\ status[f] \notin {"free", "init"}
  BY BodyFacts, Zenon DEF Yield, Sleep
<1>2. f \notin Range(queue) \cup asleep /\ f \in Range(running)
  BY <1>1, RunningFacts, Zenon DEF Active
<1>3. /\ running' = [running EXCEPT ![h] = None] /\ status' = status /\ panic' = panic
      /\ UNCHANGED <<caller, owner, has_error_handler, no_yield, executor>>
  BY Zenon DEF Yield, Sleep, frameVars
<1>4. /\ running' \in [Harts -> Frames \cup {None}]
      /\ Range(running') \ {None} = ((Range(running) \ {f}) \cup {None}) \ {None}
      /\ \A g, k \in Harts : running'[g] = running'[k] /\ running'[g] /= None => g = k
  BY <1>1, <1>3, HartRange, Zenon
<1>5. /\ queue' \in Seq(Frames) /\ asleep' \in SUBSET Frames
      /\ Range(queue') \cup asleep' = Range(queue) \cup asleep \cup {f}
      /\ Range(queue) \subseteq Range(queue') /\ Range(queue') \cap asleep' = {}
      /\ \A i, j \in DOMAIN queue' : queue'[i] = queue'[j] => i = j
  <2>1. CASE Yield(h, f)
    <3>1. queue' = Append(queue, f) /\ asleep' = asleep
      BY <2>1, Zenon DEF Yield
    <3>2. /\ queue' \in Seq(Frames) /\ Range(queue') = Range(queue) \cup {f}
          /\ \A i, j \in DOMAIN queue' : queue'[i] = queue'[j] => i = j
      <4>1. /\ f \in Frames /\ f \notin Range(queue) /\ queue \in Seq(Frames)
            /\ \A i, j \in DOMAIN queue : queue[i] = queue[j] => i = j
        BY <1>1, <1>2, PlaceFacts, Zenon
      <4> QED
        BY <3>1, <4>1, AppendFacts, Zenon
    <3> QED
      BY <1>2, <3>1, <3>2, PlaceFacts
  <2>2. CASE Sleep(h, f)
    <3>1. queue' = queue /\ asleep' = asleep \cup {f}
      BY <2>2, Zenon DEF Sleep
    <3> QED
      BY <1>1, <1>2, <3>1, PlaceFacts
  <2> QED
    BY <2>1, <2>2, Zenon
<1>6. Active' = Active
  BY <1>1, <1>4, <1>5 DEF Active
<1>7. Places'
  <2>1. ASSUME NEW r \in Range(running'), r \in Range(queue') \cup asleep' PROVE FALSE
    <3>1. r /= None
      BY <1>1, <1>5, <2>1, PlaceFacts
    <3>2. r \in Range(running) /\ r /= f
      BY <1>4, <3>1, Zenon
    <3> QED
      BY <1>5, <2>1, <3>2, PlaceFacts, Zenon
  <2> QED
    BY <1>4, <1>5, <2>1, Zenon DEF Places
<1>8. \A y \in Active : status'[y] = "init" => y \in Range(queue')
  BY <1>3, <1>5, PlaceFacts, Zenon
<1>9. \A y \in Range(queue') \cup asleep' : ~no_yield[y]
  BY <1>1, <1>5, PlaceFacts, Zenon
<1>10. status' \in [Frames -> Statuses]
  BY <1>3, PlaceFacts, Zenon
<1>11. Moved
  BY <1>3, <1>4, <1>5, <1>6, <1>7, <1>8, <1>9, <1>10, Zenon DEF Moved
<1> QED
  BY <1>3, <1>11, Zenon

-----------------------------------------------------------------------------
(* The theorems *)

LEMMA StepKeeps ==
    ASSUME IInv, [Next]_vars
    PROVE  Keeps
<1>1. CASE UNCHANGED vars
  BY <1>1, SameFrames, Zenon DEF Keeps, vars
<1>2. ASSUME NEW h \in Harts, HartStep(h) PROVE Keeps
  <2>1. CASE Resume(h)
    BY <2>1, ResumeMoves, MovedKeeps, Zenon
  <2>2. ASSUME NEW f \in Frames, BodyStep(h, f) PROVE Keeps
    BY <2>2, SuspendMoves, MovedKeeps, CreateKeeps, AwaitKeeps, StackKeeps, Zenon DEF BodyStep
  <2>3. ASSUME NEW f \in Frames, ExecutorReturn(h, f) PROVE Keeps
    BY <2>3, StackKeeps, Zenon
  <2>4. ASSUME NEW f \in Frames, NEW p \in Frames, ExecutorAwait(h, f, p) PROVE Keeps
    BY <2>4, AwaitKeeps, Zenon
  <2> QED
    BY <1>2, <2>1, <2>2, <2>3, <2>4, Zenon DEF HartStep
<1>3. ASSUME NEW f \in Frames, WakeUp(f) PROVE Keeps
  BY <1>3, WakeUpMoves, MovedKeeps, Zenon
<1>4. ASSUME NEW ny \in BOOLEAN, Spawn(ny) PROVE Keeps
  BY <1>4, SpawnKeeps, Zenon
<1> QED
  BY <1>1, <1>2, <1>3, <1>4, Zenon DEF Next, Progress

LEMMA InitKeeps ==
    ASSUME Init
    PROVE  IInv /\ PanicInv
<1>1. Range(queue) = {} /\ Range(running) \subseteq {None}
  BY DEF Init, Range
<1>2. Active = {} /\ queue \in Seq(Frames) /\ DOMAIN queue = {}
  BY <1>1 DEF Active, Init
<1>3. TypeOK
  BY DEF Init, TypeOK, Statuses, Links
<1>4. Places
  BY <1>1 DEF Places, Init
<1>5. \A f \in Frames : InvFrame(f) /\ InvFlags(f)
  BY Zenon DEF Init, InvFrame, InvFlags
<1>6. Acyclic(owner)
  BY NoneFacts, Zenon DEF Init, Acyclic
<1>7. InvActive /\ InvTrees
  BY <1>1, <1>2, Zenon DEF Init, InvActive, InvTrees
<1>8. PanicInv
  BY Zenon DEF Init, PanicInv, InvPrompt, Uncalled
<1> QED
  BY <1>3, <1>4, <1>5, <1>6, <1>7, <1>8, Zenon DEF IInv

\* Whatever the bodies do, the frames of a scheduled task hang below its
\* executor, called by those that own them, with one of them in the task queue,
\* a wait queue or on a hart.
THEOREM TasksAreTrees == Spec => []IInv
<1>1. IInv /\ [Next]_vars => IInv'
  BY StepKeeps, Zenon DEF Keeps
<1> QED
  BY <1>1, InitKeeps, PTL DEF Spec

\* Clients that await at once what they create and call schedule() only while
\* an executor can be allocated never see ~promise_base, coroutine_handle_fail
\* or schedule panic, whatever fails and however memory runs out in between.
THEOREM CoroutineNoPanic == Spec => [](~Deferred /\ Reserved => NoPanic)
<1>1. IInv /\ PanicInv /\ [Next]_vars => IInv' /\ PanicInv'
  BY StepKeeps, Zenon DEF Keeps, PanicInv
<1>2. PanicInv => (~Deferred /\ Reserved => NoPanic)
  BY Zenon DEF PanicInv, NoPanic
<1> QED
  BY <1>1, <1>2, InitKeeps, PTL DEF Spec

\* A suspended coroutine is resumed by one party: no frame is in two places, and
\* each scheduled task has exactly one active frame.  What a no_yield task calls
\* is neither queued nor asleep.
THEOREM CoroutineOneActive == Spec => []OneActive
<1>1. ASSUME IInv PROVE OneActive
  <2>1. /\ owner \in Links /\ caller \in Links /\ Active \subseteq Frames
        /\ Range(queue) \cup asleep \subseteq Active
    BY <1>1, CallerFacts, ActiveFrames, Zenon DEF IInv
  <2>2. \A f \in Active : CallersOf[f] = Above(owner, f)
    <3>1. \A f \in Active : f \in Frames /\ status[f] /= "free" /\ (status[f] = "init" => executor[f])
      BY <1>1, <2>1, Zenon DEF IInv, InvActive
    <3> QED
      BY <1>1, <3>1, OwnersAre, CallersOwners, Zenon
  <2>3. ASSUME NEW e \in Frames, executor[e] PROVE \E f \in Active : {g \in Active : e \in CallersOf[g]} = {f}
    <3>1. PICK g \in Active : e \in Above(owner, g)
      BY <1>1, <2>3, Zenon DEF IInv, InvTrees
    <3>2. \A f \in Active : e \in Above(owner, f) => f = g
      BY <1>1, <3>1, Zenon DEF IInv, InvTrees
    <3>3. {f \in Active : e \in CallersOf[f]} = {g}
      BY <2>2, <3>1, <3>2, Zenon
    <3> QED
      BY <3>1, <3>3, Zenon
  <2>4. ASSUME NEW f \in Range(queue) \cup asleep, NEW g \in CallersOf[f] PROVE ~no_yield[g]
    <3>1. f \in Frames /\ ~no_yield[f] /\ g \in Above(caller, f)
      BY <1>1, <2>1, <2>4, OwnersAre, Zenon DEF IInv, InvActive
    <3>2. PICK S : S = {x \in Frames : ~no_yield[x]}
      BY Zenon
    <3>3. \A x \in Frames : caller[x] /= None => caller[x] \in Frames /\ (no_yield[caller[x]] => no_yield[x])
      BY <1>1, CallerFacts, Zenon DEF IInv, InvFlags
    <3>4. S \in SUBSET Frames /\ f \in S /\ Closed(caller, S)
      BY <3>1, <3>2, <3>3, Zenon DEF Closed
    <3>5. g \in S
      BY <2>1, <3>1, <3>4, AboveFacts, Zenon
    <3> QED
      BY <3>2, <3>5, Zenon
  <2>5. Places
    BY <1>1, Zenon DEF IInv
  <2> QED
    BY <2>3, <2>4, <2>5, Zenon DEF OneActive, Places
<1> QED
  BY <1>1, TasksAreTrees, PTL

\* Every frame belongs to the executor of a scheduled task, so none leaks and
\* none is owned by a destroyed frame, also after a failure or without memory.
THEOREM CoroutineOwnedByTask == Spec => []OwnedByTask
<1>1. ASSUME IInv PROVE OwnedByTask
  <2>1. owner \in Links /\ Acyclic(owner)
    BY <1>1, CallerFacts, Zenon
  <2>2. \A f \in Frames : OwnersOf[f] = Above(owner, f)
    BY <1>1, OwnersAre, Zenon
  <2> DEFINE S == {f \in Live : ~ \E e \in Live : executor[e] /\ e \in Above(owner, f)}
  <2>3. ASSUME NEW x \in S PROVE owner[x] \in S
    <3>1. x \in Frames /\ x \in Live /\ status[x] /= "free" /\ x \in Above(owner, x)
      BY <2>1, AboveFacts, Zenon DEF Live
    <3>2. ~executor[x]
      BY <3>1, Zenon
    <3>3. owner[x] /= None /\ status[owner[x]] /= "free"
      BY <1>1, <3>1, Zenon DEF IInv, InvFrame
    <3>4. owner[x] \in Live /\ Above(owner, owner[x]) \subseteq Above(owner, x)
      BY <2>1, <3>1, <3>3, AboveFacts, Zenon DEF Live, Links
    <3> QED
      BY <3>4, Zenon
  <2>4. S \in SUBSET Frames
    BY Zenon DEF Live
  <2>5. S = {}
    <3> HIDE DEF S
    <3> QED
      BY <2>1, <2>3, <2>4, Zenon DEF Acyclic
  <2>6. Live \subseteq Frames
    BY Zenon DEF Live
  <2> QED
    BY <2>2, <2>5, <2>6, Zenon DEF OwnedByTask
<1> QED
  BY <1>1, TasksAreTrees, PTL

-----------------------------------------------------------------------------
(* Chains of calls *)

Flags == [Frames -> BOOLEAN]
CallSet == Frames \X BOOLEAN

\* An entry of a stack of calls, and a stack with one more.
CallOf(hh, f) == <<f, hh[f]>>
Pushed(s, c) == s \o <<c>>

LEMMA CallFacts ==
    ASSUME NEW hh \in Flags, NEW f \in Frames
    PROVE  CallOf(hh, f) \in CallSet /\ CallOf(hh, f)[1] = f /\ CallOf(hh, f)[2] = hh[f]
  BY Zenon DEF CallOf, CallSet, Flags

\* s is the path along the links o from a root to f, each frame with its flag.
Chain(o, hh, f, s) ==
    /\ s \in Seq(CallSet) /\ Len(s) >= 1
    /\ \A i \in 1..Len(s) : s[i] = CallOf(hh, s[i][1])
    /\ o[s[1][1]] = None
    /\ \A i \in 1..(Len(s) - 1) : o[s[i + 1][1]] = s[i][1]
    /\ s[Len(s)][1] = f

LEMMA AppendCall ==
    ASSUME NEW s \in Seq(CallSet), NEW c \in CallSet
    PROVE  /\ Pushed(s, c) \in Seq(CallSet) /\ Len(Pushed(s, c)) = Len(s) + 1
           /\ Pushed(s, c)[Len(s) + 1] = c
           /\ \A i \in 1..Len(s) : Pushed(s, c)[i] = s[i]
  BY DEF Pushed

LEMMA AppendFront ==
    ASSUME NEW s \in Seq(CallSet), NEW c \in CallSet, NEW t, t = Pushed(s, c)
    PROVE  SubSeq(t, 1, Len(s)) = s
<1>1. /\ t \in Seq(CallSet) /\ Len(t) = Len(s) + 1
      /\ \A i \in 1..Len(s) : t[i] = s[i]
  BY AppendCall, Zenon
<1>2. Len(s) \in Nat
  OBVIOUS
<1> QED
  BY <1>1, <1>2

LEMMA LastCall ==
    ASSUME NEW s \in Seq(CallSet), NEW k \in Nat, Len(s) = k + 1
    PROVE  s = Pushed(SubSeq(s, 1, k), s[Len(s)])
<1>1. PICK u : u = SubSeq(s, 1, k)
  BY Zenon
<1>2. u \in Seq(CallSet) /\ Len(u) = k /\ \A i \in 1..k : u[i] = s[i]
  BY <1>1
<1>3. s[Len(s)] \in CallSet
  OBVIOUS
<1>4. PICK t : t = Pushed(u, s[Len(s)])
  BY Zenon
<1>5. /\ t \in Seq(CallSet) /\ Len(t) = k + 1 /\ t[k + 1] = s[Len(s)]
      /\ \A i \in 1..k : t[i] = u[i]
  BY <1>2, <1>3, <1>4, AppendCall, Zenon
<1>6. \A i \in 1..Len(s) : i \in 1..k \/ i = Len(s)
  OBVIOUS
<1>7. \A i \in 1..Len(s) : t[i] = s[i]
  BY <1>2, <1>5, <1>6, Zenon
<1>8. t = s
  BY <1>5, <1>7
<1> QED
  BY <1>1, <1>4, <1>8, Zenon

\* The path to a root, and one step further.
LEMMA ChainStart ==
    ASSUME NEW o \in Links, NEW hh \in Flags, NEW f \in Frames, o[f] = None
    PROVE  Chain(o, hh, f, <<CallOf(hh, f)>>)
<1>1. PICK s : s = <<CallOf(hh, f)>>
  BY Zenon
<1>2. CallOf(hh, f) \in CallSet /\ CallOf(hh, f)[1] = f
  BY CallFacts, Zenon
<1>3. s \in Seq(CallSet) /\ Len(s) = 1 /\ s[1] = CallOf(hh, f) /\ s[1][1] = f
  BY <1>1, <1>2
<1> QED
  BY <1>1, <1>3 DEF Chain

LEMMA ChainGrow ==
    ASSUME NEW o \in Links, NEW hh \in Flags, NEW f \in Frames, o[f] /= None,
           NEW s, Chain(o, hh, o[f], s), NEW t, t = Pushed(s, CallOf(hh, f))
    PROVE  Chain(o, hh, f, t)
<1>1. PICK c : c = CallOf(hh, f)
  BY Zenon
<1>2. c \in CallSet /\ c[1] = f /\ c = CallOf(hh, c[1])
  BY <1>1, CallFacts, Zenon
<1>3. /\ s \in Seq(CallSet) /\ Len(s) >= 1 /\ Len(s) \in Nat
      /\ \A i \in 1..Len(s) : s[i] = CallOf(hh, s[i][1])
      /\ o[s[1][1]] = None
      /\ \A i \in 1..(Len(s) - 1) : o[s[i + 1][1]] = s[i][1]
      /\ s[Len(s)][1] = o[f]
  BY DEF Chain
<1>4. /\ t \in Seq(CallSet) /\ Len(t) = Len(s) + 1 /\ t[Len(s) + 1] = c
      /\ \A i \in 1..Len(s) : t[i] = s[i]
  BY <1>1, <1>2, <1>3, AppendCall, Zenon
<1>5. ASSUME NEW i \in 1..Len(t) PROVE t[i] = CallOf(hh, t[i][1])
  <2>1. i = Len(t) \/ i \in 1..Len(s)
    BY <1>3, <1>4
  <2> QED
    BY <1>2, <1>3, <1>4, <2>1, Zenon
<1>6. ASSUME NEW i \in 1..(Len(t) - 1) PROVE o[t[i + 1][1]] = t[i][1]
  <2>1. i \in 1..Len(s)
    BY <1>3, <1>4
  <2>2. CASE i = Len(s)
    BY <1>2, <1>3, <1>4, <2>1, <2>2, Zenon
  <2>3. CASE i /= Len(s)
    <3>1. i + 1 \in 1..Len(s) /\ i \in 1..(Len(s) - 1)
      BY <1>3, <2>1, <2>3
    <3> QED
      BY <1>3, <1>4, <2>1, <3>1, Zenon
  <2> QED
    BY <2>2, <2>3, Zenon
<1>7. 1 \in 1..Len(s) /\ t[1] = s[1] /\ Len(t) >= 1
  BY <1>3, <1>4
<1> QED
  BY <1>2, <1>3, <1>4, <1>5, <1>6, <1>7, Zenon DEF Chain

\* Up to each of its frames, the path is the path to that frame.
LEMMA ChainPrefix ==
    ASSUME NEW o \in Links, NEW hh \in Flags, NEW f \in Frames, NEW s, Chain(o, hh, f, s),
           NEW k \in 1..Len(s)
    PROVE  Chain(o, hh, s[k][1], SubSeq(s, 1, k)) /\ s[k][1] \in Frames
<1>1. /\ s \in Seq(CallSet) /\ Len(s) >= 1 /\ Len(s) \in Nat
      /\ \A i \in 1..Len(s) : s[i] = CallOf(hh, s[i][1])
      /\ o[s[1][1]] = None
      /\ \A i \in 1..(Len(s) - 1) : o[s[i + 1][1]] = s[i][1]
  BY DEF Chain
<1>2. PICK t : t = SubSeq(s, 1, k)
  BY Zenon
<1>3. /\ t \in Seq(CallSet) /\ Len(t) = k /\ k \in Nat /\ k >= 1
      /\ \A i \in 1..k : i \in 1..Len(s) /\ t[i] = s[i]
  BY <1>1, <1>2
<1>4. \A i \in 1..(k - 1) : o[t[i + 1][1]] = t[i][1]
  <2> SUFFICES ASSUME NEW i \in 1..(k - 1) PROVE o[t[i + 1][1]] = t[i][1]
    BY Zenon
  <2>1. i \in 1..k /\ i + 1 \in 1..k /\ i \in 1..(Len(s) - 1)
    BY <1>1, <1>3
  <2> QED
    BY <1>1, <1>3, <2>1, Zenon
<1>5. s[k] \in CallSet /\ 1 \in 1..k /\ k \in 1..k
  BY <1>1, <1>3
<1>6. s[k][1] \in Frames
  BY <1>5, Zenon DEF CallSet
<1>7. \A i \in 1..k : t[i] = CallOf(hh, t[i][1])
  BY <1>1, <1>3, Zenon
<1> QED
  BY <1>1, <1>2, <1>3, <1>4, <1>5, <1>6, <1>7, Zenon DEF Chain

\* A path ends with its frame and begins with the path to what that links to.
LEMMA ChainFront ==
    ASSUME NEW o \in Links, NEW hh \in Flags, NEW f \in Frames, NEW s, Chain(o, hh, f, s)
    PROVE  /\ o[f] = None => s = <<CallOf(hh, f)>>
           /\ o[f] /= None => \E u : Chain(o, hh, o[f], u) /\ s = Pushed(u, CallOf(hh, f))
<1>1. /\ s \in Seq(CallSet) /\ Len(s) >= 1 /\ Len(s) \in Nat
      /\ \A i \in 1..Len(s) : s[i] = CallOf(hh, s[i][1])
      /\ o[s[1][1]] = None
      /\ \A i \in 1..(Len(s) - 1) : o[s[i + 1][1]] = s[i][1]
      /\ s[Len(s)][1] = f
  BY DEF Chain
<1>2. Len(s) \in 1..Len(s) /\ s[Len(s)] = CallOf(hh, f)
  BY <1>1
<1>3. CASE Len(s) = 1
  <2>1. s = <<CallOf(hh, f)>>
    BY <1>1, <1>2, <1>3
  <2>2. o[f] = None
    BY <1>1, <1>3, Zenon
  <2> QED
    BY <2>1, <2>2, Zenon
<1>4. CASE Len(s) /= 1
  <2>1. PICK k : k = Len(s) - 1
    BY Zenon
  <2>2. k \in 1..(Len(s) - 1) /\ k \in 1..Len(s) /\ k + 1 = Len(s) /\ k \in Nat
    BY <1>1, <1>4, <2>1
  <2>3. o[f] = s[k][1]
    BY <1>1, <2>2, Zenon
  <2>4. Chain(o, hh, o[f], SubSeq(s, 1, k)) /\ o[f] \in Frames
    BY <2>2, <2>3, ChainPrefix, Zenon
  <2>5. s = Pushed(SubSeq(s, 1, k), s[Len(s)])
    BY <1>1, <2>2, LastCall, Zenon
  <2> QED
    BY <1>2, <2>4, <2>5, NoneFacts, Zenon
<1> QED
  BY <1>3, <1>4, Zenon

LEMMA ChainUnique ==
    ASSUME NEW o \in Links, Acyclic(o), NEW hh \in Flags
    PROVE  \A f \in Frames : \A s, t : Chain(o, hh, f, s) /\ Chain(o, hh, f, t) => s = t
<1> DEFINE S == {f \in Frames : \E s, t : Chain(o, hh, f, s) /\ Chain(o, hh, f, t) /\ s /= t}
<1>1. ASSUME NEW x \in S PROVE o[x] \in S
  <2>1. PICK s, t : Chain(o, hh, x, s) /\ Chain(o, hh, x, t) /\ s /= t
    BY Zenon
  <2>2. x \in Frames
    BY Zenon
  <2>3. o[x] /= None
    BY <2>1, <2>2, ChainFront
  <2>4. PICK u : Chain(o, hh, o[x], u) /\ s = Pushed(u, CallOf(hh, x))
    BY <2>1, <2>2, <2>3, ChainFront
  <2>5. PICK v : Chain(o, hh, o[x], v) /\ t = Pushed(v, CallOf(hh, x))
    BY <2>1, <2>2, <2>3, ChainFront
  <2>6. u /= v
    BY <2>1, <2>4, <2>5, Zenon
  <2>7. o[x] \in Frames
    BY <2>2, <2>3, Zenon DEF Links
  <2> QED
    BY <2>4, <2>5, <2>6, <2>7, Zenon
<1>2. S \in SUBSET Frames
  BY Zenon
<1>3. S = {}
  <2> HIDE DEF S
  <2> QED
    BY <1>1, <1>2, Zenon DEF Acyclic
<1> QED
  BY <1>3, Zenon

LEMMA ChainExists ==
    ASSUME NEW o \in Links, Acyclic(o), NEW hh \in Flags
    PROVE  \A f \in Frames : \E s : Chain(o, hh, f, s)
<1> DEFINE S == {f \in Frames : ~ \E s : Chain(o, hh, f, s)}
<1>1. ASSUME NEW x \in S PROVE o[x] \in S
  <2>1. x \in Frames /\ o[x] /= None
    BY ChainStart, Zenon
  <2>2. o[x] \in Frames
    BY <2>1, Zenon DEF Links
  <2>3. ASSUME NEW s, Chain(o, hh, o[x], s) PROVE FALSE
    BY <2>1, <2>3, ChainGrow, Zenon
  <2> QED
    BY <2>2, <2>3, Zenon
<1>2. S \in SUBSET Frames
  BY Zenon
<1>3. S = {}
  <2> HIDE DEF S
  <2> QED
    BY <1>1, <1>2, Zenon DEF Acyclic
<1> QED
  BY <1>3, Zenon

\* The frames of a path are those that the links lead to.
LEMMA ChainAbove ==
    ASSUME NEW o \in Links, Acyclic(o), NEW hh \in Flags, NEW f \in Frames, NEW s, Chain(o, hh, f, s)
    PROVE  {s[i][1] : i \in 1..Len(s)} = Above(o, f)
<1> DEFINE S == {x \in Frames : \E t : /\ Chain(o, hh, x, t)
                                       /\ \E i \in 1..Len(t) : t[i][1] \notin Above(o, x)}
<1>1. ASSUME NEW x \in S PROVE o[x] \in S
  <2>1. x \in Frames /\ x \in Above(o, x)
    BY AboveFacts, Zenon
  <2>2. PICK t : Chain(o, hh, x, t) /\ \E i \in 1..Len(t) : t[i][1] \notin Above(o, x)
    BY Zenon
  <2>3. PICK i \in 1..Len(t) : t[i][1] \notin Above(o, x)
    BY <2>2, Zenon
  <2>4. o[x] /= None
    <3>1. ASSUME o[x] = None PROVE FALSE
      <4>1. t = <<CallOf(hh, x)>>
        BY <2>1, <2>2, <3>1, ChainFront, Zenon
      <4>2. Len(t) = 1 /\ t[1] = CallOf(hh, x)
        BY <4>1, Zenon
      <4>3. i = 1 /\ t[i][1] = x
        BY <2>1, <4>2, CallFacts
      <4> QED
        BY <2>1, <2>3, <4>3, Zenon
    <3> QED
      BY <3>1, Zenon
  <2>5. o[x] \in Frames /\ Above(o, o[x]) \subseteq Above(o, x)
    BY <2>1, <2>4, AboveFacts, Zenon DEF Links
  <2>6. PICK u : Chain(o, hh, o[x], u) /\ t = Pushed(u, CallOf(hh, x))
    BY <2>1, <2>2, <2>4, ChainFront
  <2>7. PICK c : c = CallOf(hh, x)
    BY Zenon
  <2>8. c \in CallSet /\ c[1] = x /\ u \in Seq(CallSet)
    BY <2>1, <2>6, <2>7, CallFacts, Zenon DEF Chain
  <2>9. /\ Len(t) = Len(u) + 1 /\ t[Len(u) + 1] = c /\ \A j \in 1..Len(u) : t[j] = u[j]
    BY <2>6, <2>7, <2>8, AppendCall, ZenonT(60)
  <2>10. i /= Len(t)
    BY <2>1, <2>3, <2>8, <2>9, Zenon
  <2>11. i \in 1..Len(u)
    BY <2>8, <2>9, <2>10
  <2>12. u[i][1] \notin Above(o, o[x])
    BY <2>3, <2>5, <2>9, <2>11, Zenon
  <2> QED
    BY <2>5, <2>6, <2>11, <2>12, Zenon
<1>2. S \in SUBSET Frames
  BY Zenon
<1>3. S = {}
  <2> HIDE DEF S
  <2> QED
    BY <1>1, <1>2, Zenon DEF Acyclic
<1>4. \A i \in 1..Len(s) : s[i][1] \in Above(o, f)
  BY <1>3, Zenon
<1> HIDE DEF S
<1>5. PICK T : T = {s[i][1] : i \in 1..Len(s)}
  BY Zenon
<1>6. T \subseteq Above(o, f)
  BY <1>4, <1>5, Zenon
<1>7. /\ s \in Seq(CallSet) /\ Len(s) >= 1 /\ Len(s) \in Nat
      /\ o[s[1][1]] = None
      /\ \A i \in 1..(Len(s) - 1) : o[s[i + 1][1]] = s[i][1]
      /\ s[Len(s)][1] = f
  BY DEF Chain
<1>8. f \in T
  <2>1. Len(s) \in 1..Len(s)
    BY <1>7
  <2> QED
    BY <1>5, <1>7, <2>1, Zenon
<1>9. ASSUME NEW x \in T, o[x] /= None PROVE o[x] \in T
  <2>1. PICK i \in 1..Len(s) : x = s[i][1]
    BY <1>5, Zenon
  <2>2. i /= 1
    BY <1>7, <1>9, <2>1, Zenon
  <2>3. PICK j : j = i - 1
    BY Zenon
  <2>4. j \in 1..(Len(s) - 1) /\ j \in 1..Len(s) /\ j + 1 = i
    BY <1>7, <2>2, <2>3
  <2>5. o[x] = s[j][1]
    BY <1>7, <2>1, <2>4, Zenon
  <2> QED
    BY <1>5, <2>4, <2>5, Zenon
<1>10. T \in SUBSET Frames /\ Closed(o, T)
  BY <1>6, <1>9, AboveFacts, Zenon DEF Closed
<1>11. Above(o, f) \subseteq T
  BY <1>8, <1>10, AboveFacts, Zenon
<1> QED
  BY <1>5, <1>6, <1>11, Zenon

\* A path stays when nothing on it changes.
LEMMA ChainSame ==
    ASSUME NEW o \in Links, Acyclic(o), NEW hh \in Flags, NEW f \in Frames, NEW s, Chain(o, hh, f, s),
           NEW p, NEW kk, \A x \in Above(o, f) : p[x] = o[x] /\ kk[x] = hh[x]
    PROVE  Chain(p, kk, f, s)
<1>1. /\ s \in Seq(CallSet) /\ Len(s) >= 1 /\ Len(s) \in Nat
      /\ \A i \in 1..Len(s) : s[i] = CallOf(hh, s[i][1])
      /\ o[s[1][1]] = None
      /\ \A i \in 1..(Len(s) - 1) : o[s[i + 1][1]] = s[i][1]
      /\ s[Len(s)][1] = f
  BY DEF Chain
<1>2. {s[i][1] : i \in 1..Len(s)} = Above(o, f)
  BY ChainAbove
<1>3. \A i \in 1..Len(s) : p[s[i][1]] = o[s[i][1]] /\ kk[s[i][1]] = hh[s[i][1]]
  BY <1>2, Zenon
<1>4. 1 \in 1..Len(s) /\ \A i \in 1..(Len(s) - 1) : i + 1 \in 1..Len(s)
  BY <1>1
<1>5. ASSUME NEW i \in 1..Len(s) PROVE s[i] = CallOf(kk, s[i][1])
  <2>1. CallOf(kk, s[i][1]) = CallOf(hh, s[i][1])
    BY <1>3, Zenon DEF CallOf
  <2> QED
    BY <1>1, <2>1, Zenon
<1>6. p[s[1][1]] = None /\ \A i \in 1..(Len(s) - 1) : p[s[i + 1][1]] = s[i][1]
  BY <1>1, <1>3, <1>4, Zenon
<1> QED
  BY <1>1, <1>5, <1>6, Zenon DEF Chain

\* The recursion of Calls has one solution, the paths.
LEMMA ChainSolution ==
    ASSUME NEW o \in Links, Acyclic(o), NEW hh \in Flags, NEW F,
           F = CHOOSE G : G = [f \in Frames |->
                   Pushed(IF o[f] = None THEN <<>> ELSE G[o[f]], CallOf(hh, f))]
    PROVE  \A f \in Frames : Chain(o, hh, f, F[f])
<1> DEFINE Eq(G) == G = [f \in Frames |->
                   Pushed(IF o[f] = None THEN <<>> ELSE G[o[f]], CallOf(hh, f))]
           Path(f) == CHOOSE s : Chain(o, hh, f, s)
<1>1. PICK A : A = [f \in Frames |-> Path(f)]
  BY Zenon
<1>2. \A f \in Frames : Chain(o, hh, f, A[f])
  BY <1>1, ChainExists, Zenon
<1> HIDE DEF Path
<1>3. ASSUME NEW f \in Frames
      PROVE  A[f] = Pushed(IF o[f] = None THEN <<>> ELSE A[o[f]], CallOf(hh, f))
  <2>1. CASE o[f] = None
    <3>1. A[f] = <<CallOf(hh, f)>>
      BY <1>2, <2>1, ChainFront, Zenon
    <3>2. Pushed(<<>>, CallOf(hh, f)) = <<CallOf(hh, f)>>
      BY DEF Pushed
    <3> QED
      BY <2>1, <3>1, <3>2, Zenon
  <2>2. CASE o[f] /= None
    <3>1. o[f] \in Frames
      BY <2>2, Zenon DEF Links
    <3>2. PICK u : Chain(o, hh, o[f], u) /\ A[f] = Pushed(u, CallOf(hh, f))
      BY <1>2, <2>2, ChainFront
    <3>3. u = A[o[f]]
      BY <1>2, <3>1, <3>2, ChainUnique, Zenon
    <3> QED
      BY <2>2, <3>2, <3>3, Zenon
  <2> QED
    BY <2>1, <2>2, Zenon
<1>4. Eq(A)
  <2>1. A = [f \in Frames |-> A[f]]
    BY <1>1, Zenon
  <2> QED
    BY <1>3, <2>1, Zenon
<1>5. Eq(F)
  BY <1>4, Zenon
<1>6. \A f \in Frames : F[f] = Pushed(IF o[f] = None THEN <<>> ELSE F[o[f]], CallOf(hh, f))
  BY <1>5, Zenon
<1> HIDE DEF Eq
<1> DEFINE S == {f \in Frames : F[f] /= A[f]}
<1>7. ASSUME NEW x \in S PROVE o[x] \in S
  <2>1. x \in Frames /\ F[x] /= A[x]
    BY Zenon
  <2>2. o[x] /= None
    BY <1>3, <1>6, <2>1, Zenon
  <2>3. o[x] \in Frames
    BY <2>1, <2>2, Zenon DEF Links
  <2>4. F[o[x]] /= A[o[x]]
    BY <1>3, <1>6, <2>1, <2>2, Zenon
  <2> QED
    BY <2>3, <2>4, Zenon
<1>8. S = {}
  <2>1. S \in SUBSET Frames
    BY Zenon
  <2> HIDE DEF S
  <2> QED
    BY <1>7, <2>1, Zenon DEF Acyclic
<1> QED
  BY <1>2, <1>8, Zenon

-----------------------------------------------------------------------------
(* Stacks of tasks *)

Root(s) == s[1][1]

\* What is known of the links own and o, the flags hh, the calls C and the
\* active frames A of a state: each active frame is in a task of its own.
Forest(own, o, hh, C, A) ==
    /\ own \in Links /\ Acyclic(own) /\ o \in Links /\ Acyclic(o) /\ hh \in Flags
    /\ A \subseteq Frames
    /\ \A f \in Frames : o[f] = None \/ o[f] = own[f]
    /\ \A f, g \in A : f /= g => Above(own, f) \cap Above(own, g) = {}
    /\ \A f \in Frames : Chain(o, hh, f, C[f])

Tasks(C, A) == [e \in Frames |-> IF \E f \in A : Root(C[f]) = e
                                 THEN C[CHOOSE f \in A : Root(C[f]) = e] ELSE <<>>]

\* Callers are owners.
LEMMA AboveLess ==
    ASSUME NEW own \in Links, NEW o \in Links, NEW f \in Frames,
           \A x \in Frames : o[x] = None \/ o[x] = own[x]
    PROVE  Above(o, f) \subseteq Above(own, f)
<1>1. PICK T : T = Above(own, f)
  BY Zenon
<1>2. T \in SUBSET Frames /\ f \in T /\ Closed(own, T)
  BY <1>1, AboveFacts, Zenon
<1>3. Closed(o, T)
  BY <1>2, Zenon DEF Closed
<1> QED
  BY <1>1, <1>2, <1>3, AboveFacts, Zenon

LEMMA RootFacts ==
    ASSUME NEW own, NEW o, NEW hh, NEW C, NEW A, Forest(own, o, hh, C, A), NEW f \in Frames
    PROVE  Root(C[f]) \in Above(o, f) /\ Root(C[f]) \in Above(own, f) /\ Root(C[f]) \in Frames
<1>1. /\ own \in Links /\ o \in Links /\ Acyclic(o) /\ hh \in Flags
      /\ \A x \in Frames : o[x] = None \/ o[x] = own[x]
      /\ Chain(o, hh, f, C[f])
  BY Zenon DEF Forest
<1>2. {C[f][i][1] : i \in 1..Len(C[f])} = Above(o, f)
  BY <1>1, ChainAbove
<1>3. 1 \in 1..Len(C[f])
  BY <1>1 DEF Chain
<1>4. Root(C[f]) \in Above(o, f)
  BY <1>2, <1>3, Zenon DEF Root
<1> QED
  BY <1>1, <1>4, AboveLess, AboveFacts, Zenon

\* Every active frame is on top of the stack of one task.
LEMMA TasksFacts ==
    ASSUME NEW own, NEW o, NEW hh, NEW C, NEW A, Forest(own, o, hh, C, A)
    PROVE  /\ \A f \in A : Tasks(C, A)[Root(C[f])] = C[f]
           /\ \A e \in Frames : (\A f \in A : Root(C[f]) /= e) => Tasks(C, A)[e] = <<>>
           /\ \A f, g \in A : Root(C[f]) = Root(C[g]) => f = g
<1>1. /\ A \subseteq Frames
      /\ \A f, g \in A : f /= g => Above(own, f) \cap Above(own, g) = {}
  BY Zenon DEF Forest
<1>2. \A f \in A : Root(C[f]) \in Above(own, f) /\ Root(C[f]) \in Frames
  BY <1>1, RootFacts, Zenon
<1>3. \A f, g \in A : Root(C[f]) = Root(C[g]) => f = g
  BY <1>1, <1>2, Zenon
<1>4. ASSUME NEW f \in A PROVE Tasks(C, A)[Root(C[f])] = C[f]
  <2>1. PICK e \in Frames : e = Root(C[f])
    BY <1>2, Zenon
  <2>2. PICK g : g = CHOOSE x \in A : Root(C[x]) = e
    BY Zenon
  <2>3. g \in A /\ Root(C[g]) = e
    BY <2>1, <2>2, Zenon
  <2>4. g = f
    BY <1>3, <2>1, <2>3, Zenon
  <2>5. Tasks(C, A)[e] = C[g]
    BY <2>1, <2>2, Zenon DEF Tasks
  <2> QED
    BY <2>1, <2>4, <2>5, Zenon
<1>5. ASSUME NEW e \in Frames, \A f \in A : Root(C[f]) /= e PROVE Tasks(C, A)[e] = <<>>
  BY <1>5, Zenon DEF Tasks
<1> QED
  BY <1>3, <1>4, <1>5, Zenon

\* A step that concerns the task of e leaves the stacks of the others alone.
LEMMA TasksElsewhere ==
    ASSUME NEW own, NEW o, NEW hh, NEW C, NEW A, Forest(own, o, hh, C, A),
           NEW own2, NEW o2, NEW hh2, NEW D, NEW B, Forest(own2, o2, hh2, D, B),
           NEW e,
           \A y \in A : (y \in B /\ D[y] = C[y]) \/ Root(C[y]) = e,
           \A y \in B : (y \in A /\ D[y] = C[y]) \/ Root(D[y]) = e
    PROVE  \A d \in Frames : d /= e => Tasks(D, B)[d] = Tasks(C, A)[d]
<1> SUFFICES ASSUME NEW d \in Frames, d /= e PROVE Tasks(D, B)[d] = Tasks(C, A)[d]
  BY Zenon
<1>1. CASE \E f \in A : Root(C[f]) = d
  <2>1. PICK f \in A : Root(C[f]) = d
    BY <1>1, Zenon
  <2>2. f \in B /\ D[f] = C[f]
    BY <2>1, Zenon
  <2>3. Tasks(C, A)[d] = C[f]
    BY <2>1, TasksFacts
  <2>4. Tasks(D, B)[d] = D[f]
    BY <2>1, <2>2, TasksFacts
  <2> QED
    BY <2>2, <2>3, <2>4, Zenon
<1>2. CASE ~ \E f \in A : Root(C[f]) = d
  <2>1. \A f \in B : Root(D[f]) /= d
    BY <1>2, Zenon
  <2>2. Tasks(D, B)[d] = <<>>
    BY <2>1, TasksFacts
  <2>3. Tasks(C, A)[d] = <<>>
    BY <1>2, TasksFacts
  <2> QED
    BY <2>2, <2>3, Zenon
<1> QED
  BY <1>1, <1>2, Zenon

-----------------------------------------------------------------------------
(* The stacks of a state and of the next one *)

Shaped == Forest(owner, caller, has_error_handler, Calls, Active)

LEMMA CallsAre ==
    ASSUME IInv
    PROVE  \A f \in Frames : Chain(caller, has_error_handler, f, Calls[f])
<1>1. caller \in Links /\ Acyclic(caller) /\ has_error_handler \in Flags
  BY CallerFacts, Zenon DEF IInv, TypeOK, Flags
<1>2. Calls = CHOOSE G : G = [f \in Frames |->
          Pushed(IF caller[f] = None THEN <<>> ELSE G[caller[f]], CallOf(has_error_handler, f))]
  BY Zenon DEF Calls, Pushed, CallOf
<1> QED
  BY <1>1, <1>2, ChainSolution, Zenon

LEMMA IsShaped == IInv => Shaped
<1> SUFFICES ASSUME IInv PROVE Shaped
  BY Zenon
<1>1. /\ owner \in Links /\ Acyclic(owner) /\ caller \in Links /\ Acyclic(caller)
      /\ \A f \in Frames : caller[f] /= None => caller[f] = owner[f]
  BY CallerFacts, Zenon
<1>2. has_error_handler \in Flags /\ Active \subseteq Frames
  BY ActiveFrames, Zenon DEF IInv, TypeOK, Flags
<1>3. \A f, g \in Active : f /= g => Above(owner, f) \cap Above(owner, g) = {}
  BY Zenon DEF IInv, InvTrees
<1>4. \A f \in Frames : Chain(caller, has_error_handler, f, Calls[f])
  BY CallsAre, Zenon
<1> QED
  BY <1>1, <1>2, <1>3, <1>4, Zenon DEF Shaped, Forest

LEMMA NextShaped == IInv' => Shaped'
  BY IsShaped, PTL

LEMMA TaskStackIs == TaskStack = Tasks(Calls, Active)
  BY Zenon DEF TaskStack, Tasks, Root

LEMMA NextTaskStackIs == TaskStack' = Tasks(Calls', Active')
  BY Zenon DEF TaskStack, Tasks, Root

\* The path to a frame stays when no frame on it changes.
LEMMA CallsKept ==
    ASSUME Shaped, Shaped', NEW y \in Frames,
           \A x \in Above(caller, y) : /\ caller'[x] = caller[x]
                                       /\ has_error_handler'[x] = has_error_handler[x]
    PROVE  Calls'[y] = Calls[y]
<1>1. /\ caller \in Links /\ Acyclic(caller) /\ has_error_handler \in Flags
      /\ Chain(caller, has_error_handler, y, Calls[y])
  BY Zenon DEF Shaped, Forest
<1>2. /\ caller' \in Links /\ Acyclic(caller') /\ has_error_handler' \in Flags
      /\ Chain(caller', has_error_handler', y, Calls'[y])
  BY Zenon DEF Shaped, Forest
<1>3. Chain(caller', has_error_handler', y, Calls[y])
  BY <1>1, ChainSame, Zenon
<1> QED
  BY <1>2, <1>3, ChainUnique, Zenon

\* Up to a frame of it, a path is the path to that frame.
LEMMA CallsUp ==
    ASSUME Shaped, NEW f \in Frames, NEW k \in 1..Len(Calls[f]), NEW x, x = Calls[f][k][1]
    PROVE  x \in Frames /\ Calls[x] = SubSeq(Calls[f], 1, k) /\ Root(Calls[x]) = Root(Calls[f])
<1>1. /\ caller \in Links /\ Acyclic(caller) /\ has_error_handler \in Flags
      /\ \A y \in Frames : Chain(caller, has_error_handler, y, Calls[y])
  BY Zenon DEF Shaped, Forest
<1>2. Chain(caller, has_error_handler, x, SubSeq(Calls[f], 1, k)) /\ x \in Frames
  BY <1>1, ChainPrefix, Zenon
<1>3. Calls[x] = SubSeq(Calls[f], 1, k)
  BY <1>1, <1>2, ChainUnique, Zenon
<1>4. PICK s : s = Calls[f]
  BY Zenon
<1>5. s \in Seq(CallSet) /\ Len(s) \in Nat
  BY <1>1, <1>4 DEF Chain
<1>6. SubSeq(s, 1, k)[1] = s[1]
  BY <1>4, <1>5
<1> QED
  BY <1>2, <1>3, <1>4, <1>6, Zenon DEF Root

\* The entries of a path are its frames with their flags.
LEMMA CallsTop ==
    ASSUME Shaped, NEW f \in Frames
    PROVE  /\ Calls[f] \in Seq(CallSet) /\ Len(Calls[f]) \in Nat /\ Len(Calls[f]) >= 1
           /\ \A i \in 1..Len(Calls[f]) : Calls[f][i][2] = has_error_handler[Calls[f][i][1]]
           /\ {Calls[f][i][1] : i \in 1..Len(Calls[f])} = Above(caller, f)
           /\ caller[f] = None => Calls[f] = <<CallOf(has_error_handler, f)>>
           /\ caller[f] /= None => Calls[f] = Pushed(Calls[caller[f]], CallOf(has_error_handler, f))
<1>1. /\ caller \in Links /\ Acyclic(caller) /\ has_error_handler \in Flags
      /\ \A y \in Frames : Chain(caller, has_error_handler, y, Calls[y])
  BY Zenon DEF Shaped, Forest
<1>2. /\ Calls[f] \in Seq(CallSet) /\ Len(Calls[f]) \in Nat /\ Len(Calls[f]) >= 1
      /\ \A i \in 1..Len(Calls[f]) : Calls[f][i] = CallOf(has_error_handler, Calls[f][i][1])
  BY <1>1 DEF Chain
<1>3. \A i \in 1..Len(Calls[f]) : Calls[f][i][1] \in Frames
  BY <1>1, ChainPrefix, Zenon
<1>4. \A i \in 1..Len(Calls[f]) : Calls[f][i][2] = has_error_handler[Calls[f][i][1]]
  <2> SUFFICES ASSUME NEW i \in 1..Len(Calls[f])
               PROVE  Calls[f][i][2] = has_error_handler[Calls[f][i][1]]
    BY Zenon
  <2>1. PICK x \in Frames : x = Calls[f][i][1]
    BY <1>3, Zenon
  <2>2. Calls[f][i] = CallOf(has_error_handler, x)
    BY <1>2, <2>1, Zenon
  <2>3. CallOf(has_error_handler, x)[2] = has_error_handler[x]
    BY <1>1, CallFacts, Zenon
  <2> QED
    BY <2>1, <2>2, <2>3, Zenon
<1>5. {Calls[f][i][1] : i \in 1..Len(Calls[f])} = Above(caller, f)
  BY <1>1, ChainAbove
<1>6. caller[f] = None => Calls[f] = <<CallOf(has_error_handler, f)>>
  BY <1>1, ChainFront, Zenon
<1>7. ASSUME caller[f] /= None
      PROVE  Calls[f] = Pushed(Calls[caller[f]], CallOf(has_error_handler, f))
  <2>1. caller[f] \in Frames
    BY <1>1, <1>7, Zenon DEF Links
  <2>2. PICK u : /\ Chain(caller, has_error_handler, caller[f], u)
                 /\ Calls[f] = Pushed(u, CallOf(has_error_handler, f))
    BY <1>1, <1>7, ChainFront
  <2>3. u = Calls[caller[f]]
    BY <1>1, <2>1, <2>2, ChainUnique, Zenon
  <2> QED
    BY <2>2, <2>3, Zenon
<1> QED
  BY <1>2, <1>4, <1>5, <1>6, <1>7, Zenon

-----------------------------------------------------------------------------
(* The steps *)

Fails == {f \in Frames : status[f] = "fail"}

\* Free memory has no error handler, so an executor starts without one.
FreeFlags == \A f \in Frames : status[f] = "free" => ~has_error_handler[f]

\* TaskStack by the active frames, in one state and from one to the next.
StackView ==
    /\ \A f \in Active : Root(Calls[f]) \in Frames /\ TaskStack[Root(Calls[f])] = Calls[f]
    /\ \A e \in Frames : (\A f \in Active : Root(Calls[f]) /= e) => TaskStack[e] = <<>>
    /\ \A f, g \in Active : Root(Calls[f]) = Root(Calls[g]) => f = g

LEMMA StacksAre == IInv => StackView
<1> SUFFICES ASSUME IInv PROVE StackView
  BY Zenon
<1>1. Forest(owner, caller, has_error_handler, Calls, Active)
  BY IsShaped, Zenon DEF Shaped
<1>2. \A f \in Active : f \in Frames /\ Root(Calls[f]) \in Frames
  BY <1>1, RootFacts, Zenon DEF Forest
<1>3. /\ \A f \in Active : Tasks(Calls, Active)[Root(Calls[f])] = Calls[f]
      /\ \A e \in Frames : (\A f \in Active : Root(Calls[f]) /= e) => Tasks(Calls, Active)[e] = <<>>
      /\ \A f, g \in Active : Root(Calls[f]) = Root(Calls[g]) => f = g
  BY <1>1, TasksFacts
<1> QED
  BY <1>2, <1>3, TaskStackIs, Zenon DEF StackView

LEMMA NextStacksAre == IInv' => StackView'
  BY StacksAre, PTL

LEMMA StacksElsewhere ==
    ASSUME IInv, IInv', NEW e,
           \A y \in Active : (y \in Active' /\ Calls'[y] = Calls[y]) \/ Root(Calls[y]) = e,
           \A y \in Active' : (y \in Active /\ Calls'[y] = Calls[y]) \/ Root(Calls'[y]) = e
    PROVE  \A d \in Frames : d /= e => TaskStack'[d] = TaskStack[d]
<1>1. Forest(owner, caller, has_error_handler, Calls, Active)
  BY IsShaped, Zenon DEF Shaped
<1>2. Forest(owner', caller', has_error_handler', Calls', Active')
  BY NextShaped, Zenon DEF Shaped
<1>3. \A d \in Frames : d /= e => Tasks(Calls', Active')[d] = Tasks(Calls, Active)[d]
  BY <1>1, <1>2, TasksElsewhere
<1> QED
  BY <1>3, TaskStackIs, NextTaskStackIs, Zenon

LEMMA ForgetStep ==
    ASSUME IInv, IInv', Active' = Active, \A y \in Active : Calls'[y] = Calls[y], Fails' \subseteq Fails
    PROVE  Stacks!Next
<1>1. \A d \in Frames : d /= None => TaskStack'[d] = TaskStack[d]
  BY StacksElsewhere, Zenon
<1>2. \A d \in Frames : TaskStack'[d] = TaskStack[d]
  BY <1>1, NoneFacts, Zenon
<1>3. TaskStack' = TaskStack
  BY <1>2, Zenon DEF TaskStack
<1> QED
  BY <1>3, Zenon DEF Stacks!Next, Stacks!Forget, Fails

LEMMA MoveStep ==
    ASSUME NEW e \in Frames, \A d \in Frames : d /= e => TaskStack'[d] = TaskStack[d],
           Stacks!Move(e, TaskStack[e], TaskStack'[e])
    PROVE  Stacks!Next
<1>1. \A d \in Frames \ {e} : TaskStack'[d] = TaskStack[d]
  BY Zenon
<1> QED
  BY <1>1, Zenon DEF Stacks!Next, Stacks!Step

\* The frames that are not destroyed keep their paths.
LEMMA StackStepCalls ==
    ASSUME IInv, IInv', NEW h \in Harts, NEW x, NEW S, NEW st, StackStep(h, x, S, st)
    PROVE  \A y \in Frames : y \notin S => Calls'[y] = Calls[y]
<1>1. S \in SUBSET Frames /\ Subtree(S) /\ Destroy(S, st)
  BY Zenon DEF StackStep
<1>2. /\ caller' = [y \in Frames |-> IF y \in S THEN None ELSE caller[y]]
      /\ has_error_handler' = [y \in Frames |-> IF y \in S THEN FALSE ELSE has_error_handler[y]]
  BY <1>1, Zenon DEF Destroy
<1>3. /\ owner \in Links /\ caller \in Links
      /\ \A y \in Frames : caller[y] = None \/ caller[y] = owner[y]
  BY CallerFacts, Zenon
<1>4. Closed(owner, Frames \ S)
  BY <1>1, <1>3, Zenon DEF Closed, Subtree, Links
<1>5. ASSUME NEW y \in Frames, y \notin S PROVE Calls'[y] = Calls[y]
  <2>1. Above(owner, y) \subseteq Frames \ S
    BY <1>3, <1>4, <1>5, AboveFacts, Zenon
  <2>2. Above(caller, y) \subseteq Frames \ S
    BY <1>3, <2>1, AboveLess, Zenon
  <2>3. \A z \in Above(caller, y) : caller'[z] = caller[z] /\ has_error_handler'[z] = has_error_handler[z]
    BY <1>2, <2>2, Zenon
  <2> QED
    BY <2>3, CallsKept, IsShaped, NextShaped, Zenon
<1> QED
  BY <1>5, Zenon

\* Going up a stack shortens it.
LEMMA StackStepMoves ==
    ASSUME IInv, IInv', NEW h \in Harts, running[h] /= None,
           NEW x, NEW S, NEW st, StackStep(h, x, S, st),
           NEW k \in 1..Len(Calls[running[h]]), x = Calls[running[h]][k][1]
    PROVE  \E e \in Frames : /\ TaskStack[e] = Calls[running[h]]
                             /\ TaskStack'[e] = SubSeq(Calls[running[h]], 1, k)
                             /\ \A d \in Frames : d /= e => TaskStack'[d] = TaskStack[d]
<1>1. PICK f : f = running[h]
  BY Zenon
<1>2. f \in Frames /\ f \in Active
  BY <1>1, RunningFacts, Zenon
<1>3. Shaped /\ Shaped'
  BY IsShaped, NextShaped, Zenon
<1>4. x \in Frames /\ Calls[x] = SubSeq(Calls[f], 1, k) /\ Root(Calls[x]) = Root(Calls[f])
  BY <1>1, <1>2, <1>3, CallsUp, Zenon
<1>5. x /= None
  BY <1>4, NoneFacts, Zenon
<1>6. Active' = (Active \ {f}) \cup {x}
  BY <1>1, <1>5, StackStepKeeps
<1>7. x \notin S /\ \A y \in S : f \in Above(owner, y)
  BY <1>1, <1>5, Zenon DEF StackStep
<1>8. Active \subseteq Frames
  BY ActiveFrames, Zenon DEF IInv
<1>9. \A y \in Active : y /= f => y \notin S
  BY <1>2, <1>7, <1>8, OnlyActive, Zenon
<1>10. \A y \in Frames : y \notin S => Calls'[y] = Calls[y]
  BY StackStepCalls, Zenon
<1>11. Calls'[x] = Calls[x] /\ \A y \in Active : y /= f => Calls'[y] = Calls[y]
  BY <1>4, <1>7, <1>8, <1>9, <1>10, Zenon
<1>12. PICK e : e = Root(Calls[f])
  BY Zenon
<1>13. StackView /\ StackView'
  BY StacksAre, NextStacksAre, Zenon
<1>14. e \in Frames /\ TaskStack[e] = Calls[f]
  BY <1>2, <1>12, <1>13, Zenon DEF StackView
<1>15. TaskStack'[e] = Calls[x]
  <2>1. x \in Active' /\ Root(Calls'[x]) = e /\ Calls'[x] = Calls[x]
    BY <1>4, <1>6, <1>11, <1>12, Zenon
  <2> QED
    BY <1>13, <2>1, Zenon DEF StackView
<1>16. \A d \in Frames : d /= e => TaskStack'[d] = TaskStack[d]
  <2>1. \A y \in Active : (y \in Active' /\ Calls'[y] = Calls[y]) \/ Root(Calls[y]) = e
    BY <1>6, <1>11, <1>12, Zenon
  <2>2. \A y \in Active' : (y \in Active /\ Calls'[y] = Calls[y]) \/ Root(Calls'[y]) = e
    BY <1>4, <1>6, <1>11, <1>12, Zenon
  <2> QED
    BY <2>1, <2>2, StacksElsewhere, Zenon
<1> QED
  BY <1>1, <1>4, <1>14, <1>15, <1>16, Zenon

\* Returning, or yielding a value, to the caller.
LEMMA ReturnStep ==
    ASSUME IInv, IInv', NEW h \in Harts, running[h] /= None, NEW f, f = running[h], caller[f] /= None,
           NEW S, NEW st, StackStep(h, caller[f], S, st), Fails' \subseteq Fails
    PROVE  Stacks!Next
<1>1. f \in Frames /\ Shaped
  BY RunningFacts, IsShaped, Zenon
<1>2. caller[f] \in Frames
  BY <1>1, CallerFacts, Zenon
<1>3. PICK s, u, c : s = Calls[f] /\ u = Calls[caller[f]] /\ c = CallOf(has_error_handler, f)
  BY Zenon
<1>4. /\ s = Pushed(u, c) /\ s \in Seq(CallSet) /\ u \in Seq(CallSet)
      /\ Len(u) \in Nat /\ Len(u) >= 1
  BY <1>1, <1>2, <1>3, CallsTop, Zenon
<1>5. c \in CallSet
  BY <1>1, <1>3, CallFacts, Zenon DEF Shaped, Forest
<1>6. Len(s) = Len(u) + 1 /\ \A i \in 1..Len(u) : s[i] = u[i]
  BY <1>4, <1>5, AppendCall, Zenon
<1>7. Len(u) \in 1..Len(u) /\ Len(u) \in 1..Len(s) /\ Len(s) - 1 = Len(u) /\ s /= <<>>
  BY <1>4, <1>6
<1>8. u[Len(u)][1] = caller[f]
  <2>1. Chain(caller, has_error_handler, caller[f], u)
    BY <1>1, <1>2, <1>3, Zenon DEF Shaped, Forest
  <2> QED
    BY <2>1, Zenon DEF Chain
<1>9. s[Len(u)][1] = caller[f]
  BY <1>6, <1>7, <1>8, Zenon
<1>10. PICK e \in Frames : /\ TaskStack[e] = s /\ TaskStack'[e] = SubSeq(s, 1, Len(u))
                           /\ \A d \in Frames : d /= e => TaskStack'[d] = TaskStack[d]
  BY <1>3, <1>7, <1>9, StackStepMoves, Zenon
<1>11. Stacks!Return(TaskStack[e], TaskStack'[e])
  <2>1. TaskStack[e] /= <<>> /\ TaskStack'[e] = SubSeq(TaskStack[e], 1, Len(TaskStack[e]) - 1)
    BY <1>7, <1>10, Zenon
  <2> QED
    BY <2>1, Zenon DEF Stacks!Return, Fails
<1>12. Stacks!Move(e, TaskStack[e], TaskStack'[e])
  BY <1>11, Zenon DEF Stacks!Move
<1> QED
  BY <1>10, <1>12, MoveStep, Zenon

\* coroutine_handle_fail stops at the innermost guarded frame of the stack.
LEMMA GuardPoint ==
    ASSUME IInv
    PROVE  \A f \in Frames : FailPoint[f] /= None =>
               \E i \in 1..Len(Calls[f]) :
                   /\ i > 1 /\ Calls[f][i][1] = FailPoint[f] /\ Calls[f][i][2]
                   /\ \A j \in 1..Len(Calls[f]) : Calls[f][j][2] => j <= i
<1> DEFINE At(x, i) == /\ i > 1 /\ Calls[x][i][1] = FailPoint[x] /\ Calls[x][i][2]
                       /\ \A j \in 1..Len(Calls[x]) : Calls[x][j][2] => j <= i
           S == {x \in Frames : FailPoint[x] /= None /\ ~ \E i \in 1..Len(Calls[x]) : At(x, i)}
<1>1. Shaped /\ has_error_handler \in Flags /\ caller \in Links /\ Acyclic(caller)
  BY IsShaped, Zenon DEF Shaped, Forest
<1>2. ASSUME NEW x \in S PROVE caller[x] \in S
  <2>1. x \in Frames /\ FailPoint[x] /= None
    BY Zenon
  <2>2. caller[x] /= None
    BY <2>1, FailRecursion, Zenon
  <2>3. caller[x] \in Frames
    BY <1>1, <2>1, <2>2, Zenon DEF Links
  <2>4. PICK s, u, c : s = Calls[x] /\ u = Calls[caller[x]] /\ c = CallOf(has_error_handler, x)
    BY Zenon
  <2>5. /\ s = Pushed(u, c) /\ s \in Seq(CallSet) /\ u \in Seq(CallSet)
        /\ Len(u) \in Nat /\ Len(u) >= 1
    BY <1>1, <2>1, <2>2, <2>3, <2>4, CallsTop, Zenon
  <2>6. c \in CallSet /\ c[1] = x /\ c[2] = has_error_handler[x]
    BY <1>1, <2>1, <2>4, CallFacts, Zenon
  <2>7. Len(s) = Len(u) + 1 /\ s[Len(u) + 1] = c /\ \A i \in 1..Len(u) : s[i] = u[i]
    <3>1. /\ Len(Pushed(u, c)) = Len(u) + 1 /\ Pushed(u, c)[Len(u) + 1] = c
          /\ \A i \in 1..Len(u) : Pushed(u, c)[i] = u[i]
      BY <2>5, <2>6, AppendCall, Zenon
    <3> QED
      BY <2>5, <3>1
  <2>8. ~has_error_handler[x]
    <3> SUFFICES ASSUME has_error_handler[x] PROVE FALSE
      BY Zenon
    <3>1. FailPoint[x] = x
      BY <2>1, <2>2, FailRecursion, Zenon
    <3>2. PICK i : i = Len(u) + 1
      BY Zenon
    <3>3. i \in 1..Len(s) /\ i > 1 /\ \A j \in 1..Len(s) : j <= i
      BY <2>5, <2>7, <3>2
    <3>4. s[i][1] = FailPoint[x] /\ s[i][2]
      BY <2>6, <2>7, <3>1, <3>2, Zenon
    <3>5. At(x, i)
      BY <2>4, <3>3, <3>4, Zenon
    <3> QED
      BY <2>4, <3>3, <3>5, Zenon
  <2>9. FailPoint[caller[x]] = FailPoint[x]
    BY <2>1, <2>2, <2>8, FailRecursion, Zenon
  <2>10. ASSUME NEW i \in 1..Len(u), At(caller[x], i) PROVE FALSE
    <3>1. /\ i > 1 /\ u[i][1] = FailPoint[x] /\ u[i][2] /\ s[i] = u[i]
          /\ \A j \in 1..Len(u) : u[j][2] => j <= i
      BY <2>4, <2>7, <2>9, <2>10, Zenon
    <3>2. i \in 1..Len(s) /\ \A j \in 1..Len(s) : j \in 1..Len(u) \/ j = Len(u) + 1
      BY <2>5, <2>7
    <3>3. \A j \in 1..Len(s) : s[j][2] => j <= i
      BY <2>6, <2>7, <2>8, <3>1, <3>2, Zenon
    <3>4. At(x, i)
      BY <2>4, <3>1, <3>3, Zenon
    <3> QED
      BY <2>4, <3>2, <3>4, Zenon
  <2> QED
    BY <2>1, <2>3, <2>4, <2>9, <2>10, Zenon
<1>3. S = {}
  <2>1. S \in SUBSET Frames
    BY Zenon
  <2> HIDE DEF S
  <2> QED
    BY <1>1, <1>2, <2>1, Zenon DEF Acyclic
<1> QED
  BY <1>3, Zenon

\* What is above a frame is not below it.
LEMMA UpNotBelow ==
    ASSUME IInv, NEW f \in Frames, NEW g \in Above(owner, f), f \in Above(owner, g)
    PROVE  g = f
<1>1. owner \in Links /\ Acyclic(owner)
  BY CallerFacts, Zenon
<1> SUFFICES ASSUME g /= f PROVE FALSE
  BY Zenon
<1>2. owner[f] /= None
  BY <1>1, AboveFacts
<1>3. owner[f] \in Frames /\ g \in Above(owner, owner[f])
  BY <1>1, <1>2, AboveFacts DEF Links
<1>4. Above(owner, g) \subseteq Above(owner, owner[f])
  BY <1>1, <1>3, AboveTrans, Zenon
<1> QED
  BY <1>1, <1>2, <1>4, AboveNotBelow, Zenon

\* A failure unwinds the stack to the caller of the innermost guarded frame.
LEMMA ThrowStep ==
    ASSUME IInv, IInv', NEW h \in Harts, NEW f, Body(h, f), Unwind(h, f),
           NEW x, NEW S, StackStep(h, x, S, Failed(f)), f \notin S
    PROVE  Stacks!Next
<1>1. /\ f = running[h] /\ running[h] /= None /\ f \in Frames
      /\ status[f] \notin {"free", "init"} /\ ~executor[f] /\ f \in Above(owner, f)
  BY BodyFacts, Zenon
<1>2. PICK g : g = HandleFail(f)
  BY Zenon
<1>3. g /= None /\ g \in Above(owner, f) /\ g = FailPoint[f]
  BY <1>1, <1>2, HandleFailFacts, Zenon DEF HandleFail
<1>4. g \in Frames
  BY <1>1, <1>3, CallerFacts, AboveFacts, Zenon
<1>5. x = caller[g]
  <2>1. running \in [Harts -> Frames \cup {None}]
    BY Zenon DEF IInv, TypeOK
  <2>2. running' = [running EXCEPT ![h] = caller[g]]
    BY <1>2, <1>3, Zenon DEF Unwind
  <2>3. running' = [running EXCEPT ![h] = x]
    BY Zenon DEF StackStep
  <2> QED
    BY <2>1, <2>2, <2>3, Zenon
<1>6. PICK s : s = Calls[f]
  BY Zenon
<1>7. PICK i \in 1..Len(s) : /\ i > 1 /\ s[i][1] = g /\ s[i][2]
                             /\ \A j \in 1..Len(s) : s[j][2] => j <= i
  BY <1>1, <1>3, <1>6, GuardPoint, Zenon
<1>8. Shaped
  BY IsShaped, Zenon
<1>9. /\ s \in Seq(CallSet) /\ Len(s) \in Nat /\ DOMAIN s = 1..Len(s)
      /\ \A j \in 1..(Len(s) - 1) : caller[s[j + 1][1]] = s[j][1]
      /\ s[Len(s)][1] = f
  <2>1. Chain(caller, has_error_handler, f, s)
    BY <1>1, <1>6, <1>8, Zenon DEF Shaped, Forest
  <2> QED
    BY <2>1 DEF Chain
<1>10. PICK k : k = i - 1
  BY Zenon
<1>11. k \in 1..(Len(s) - 1) /\ k \in 1..Len(s) /\ k + 1 = i
  BY <1>7, <1>9, <1>10
<1>12. x = s[k][1]
  BY <1>5, <1>7, <1>9, <1>11, Zenon
<1>13. PICK e \in Frames : /\ TaskStack[e] = s /\ TaskStack'[e] = SubSeq(s, 1, k)
                           /\ \A d \in Frames : d /= e => TaskStack'[d] = TaskStack[d]
  BY <1>1, <1>6, <1>11, <1>12, StackStepMoves, Zenon
<1>14. g \in Fails' /\ Fails' \subseteq Fails \cup {f, g}
  <2>1. S \in SUBSET Frames /\ Destroy(S, Failed(f)) /\ \A y \in S : f \in Above(owner, y)
    BY <1>1, Zenon DEF StackStep
  <2>2. g \notin S
    BY <1>1, <1>3, <2>1, UpNotBelow, Zenon
  <2>3. \A y \in Frames : status'[y] = IF y \in S THEN "free" ELSE IF y \in {f, g} THEN "fail" ELSE status[y]
    BY <1>2, <2>1, Zenon DEF Destroy, Failed
  <2> QED
    BY <1>4, <2>2, <2>3, Zenon DEF Fails
<1>15. g \in {s[j][1] : j \in i..Len(s)} /\ f \in {s[j][1] : j \in i..Len(s)}
  <2>1. i \in i..Len(s) /\ Len(s) \in i..Len(s)
    BY <1>7, <1>9
  <2> QED
    BY <1>7, <1>9, <2>1, Zenon
<1>16. Fails' \subseteq Fails \cup {s[j][1] : j \in i..Len(s)}
  BY <1>14, <1>15, Zenon
<1>17. Stacks!Throw(TaskStack[e], TaskStack'[e])
  <2>1. i \in DOMAIN s /\ s[i][1] \in Fails' /\ \A j \in DOMAIN s : s[j][2] => j <= i
    BY <1>7, <1>9, <1>14, Zenon
  <2>2. TaskStack'[e] = SubSeq(s, 1, i - 1)
    BY <1>10, <1>13, Zenon
  <2>3. Stacks!Throw(s, TaskStack'[e])
    BY <1>7, <1>16, <2>1, <2>2, Zenon DEF Stacks!Throw, Fails
  <2> QED
    BY <1>13, <2>3, Zenon
<1>18. Stacks!Move(e, TaskStack[e], TaskStack'[e])
  BY <1>17, Zenon DEF Stacks!Move
<1> QED
  BY <1>13, <1>18, MoveStep, Zenon

\* The step of an executor that returns ends its stack.
LEMMA EndStep ==
    ASSUME IInv, IInv', NEW h \in Harts, running[h] /= None, NEW f, f = running[h],
           NEW S, NEW st, StackStep(h, None, S, st), Fails' \subseteq Fails
    PROVE  Stacks!Next
<1>1. f \in Frames /\ f \in Active /\ Shaped /\ status[f] \notin {"free", "init"}
  BY RunningFacts, IsShaped, Zenon
<1>2. /\ None \notin Above(owner, f) /\ \A y \in S : f \in Above(owner, y)
      /\ executor[f]
  BY <1>1, CallerFacts, AboveFacts, NoneFacts DEF StackStep
<1>3. caller[f] = None
  BY <1>1, <1>2, Zenon DEF IInv, InvFrame
<1>4. Calls[f] = <<CallOf(has_error_handler, f)>>
  BY <1>1, <1>3, CallsTop, Zenon
<1>5. CallOf(has_error_handler, f)[1] = f
  BY <1>1, CallFacts, Zenon DEF Shaped, Forest
<1>6. Root(Calls[f]) = f /\ Len(Calls[f]) = 1 /\ Calls[f] /= <<>> /\ SubSeq(Calls[f], 1, 0) = <<>>
  BY <1>4, <1>5 DEF Root
<1>7. Active' = Active \ {f}
  BY StackStepKeeps, Zenon
<1>8. Active \subseteq Frames
  BY ActiveFrames, Zenon DEF IInv
<1>9. \A y \in Active : y /= f => y \notin S
  BY <1>1, <1>2, <1>8, OnlyActive, Zenon
<1>10. \A y \in Active' : y \in Active /\ y /= f /\ Calls'[y] = Calls[y]
  <2>1. \A y \in Frames : y \notin S => Calls'[y] = Calls[y]
    BY StackStepCalls, Zenon
  <2> QED
    BY <1>7, <1>8, <1>9, <2>1, Zenon
<1>11. StackView /\ StackView'
  BY StacksAre, NextStacksAre, Zenon
<1>12. PICK e \in Frames : e = Root(Calls[f])
  BY <1>1, <1>6, Zenon
<1>13. TaskStack[e] = Calls[f]
  BY <1>1, <1>11, <1>12, Zenon DEF StackView
<1>14. TaskStack'[e] = <<>>
  <2>1. \A y \in Active' : Root(Calls'[y]) /= e
    BY <1>1, <1>10, <1>11, <1>12 DEF StackView
  <2> QED
    BY <1>11, <2>1, Zenon DEF StackView
<1>15. \A d \in Frames : d /= e => TaskStack'[d] = TaskStack[d]
  <2>1. \A y \in Active : (y \in Active' /\ Calls'[y] = Calls[y]) \/ Root(Calls[y]) = e
    BY <1>7, <1>10, <1>12, Zenon
  <2> QED
    BY <1>10, <2>1, StacksElsewhere, Zenon
<1>16. Stacks!Return(TaskStack[e], TaskStack'[e])
  <2>1. TaskStack[e] /= <<>> /\ Len(TaskStack[e]) - 1 = 0
    BY <1>6, <1>13
  <2>2. TaskStack'[e] = SubSeq(TaskStack[e], 1, Len(TaskStack[e]) - 1)
    BY <1>6, <1>13, <1>14, <2>1, Zenon
  <2> QED
    BY <2>1, <2>2, Zenon DEF Stacks!Return, Fails
<1>17. Stacks!Move(e, TaskStack[e], TaskStack'[e])
  BY <1>16, Zenon DEF Stacks!Move
<1> QED
  BY <1>15, <1>17, MoveStep, Zenon

\* The frames of the stacks are those above the active frames.
LEMMA NotOnStack ==
    ASSUME IInv, NEW g, \A y \in Active : g \notin Above(caller, y)
    PROVE  ~Stacks!OnStack(g)
<1>1. Shaped /\ StackView /\ Active \subseteq Frames
  BY IsShaped, StacksAre, ActiveFrames, Zenon DEF IInv
<1> SUFFICES ASSUME NEW e \in Frames, NEW i \in DOMAIN TaskStack[e], TaskStack[e][i][1] = g
             PROVE  FALSE
  BY Zenon DEF Stacks!OnStack
<1>2. CASE \A y \in Active : Root(Calls[y]) /= e
  <2>1. TaskStack[e] = <<>>
    BY <1>1, <1>2, Zenon DEF StackView
  <2> QED
    BY <2>1
<1>3. ASSUME NEW y \in Active, Root(Calls[y]) = e PROVE FALSE
  <2>1. TaskStack[e] = Calls[y] /\ y \in Frames
    BY <1>1, <1>3, Zenon DEF StackView
  <2>2. /\ Calls[y] \in Seq(CallSet)
        /\ {Calls[y][j][1] : j \in 1..Len(Calls[y])} = Above(caller, y)
    BY <1>1, <2>1, CallsTop, Zenon
  <2>3. i \in 1..Len(Calls[y])
    BY <2>1, <2>2
  <2>4. g \in Above(caller, y)
    BY <2>1, <2>2, <2>3, Zenon
  <2> QED
    BY <2>4, Zenon
<1> QED
  BY <1>2, <1>3, Zenon

LEMMA CallsGrow ==
    Shaped => \A f \in Frames : caller[f] /= None =>
                  Calls[f] = Pushed(Calls[caller[f]], CallOf(has_error_handler, f))
  BY CallsTop, Zenon

LEMMA NextCallsGrow ==
    Shaped' => \A f \in Frames : caller'[f] /= None =>
                  Calls'[f] = Pushed(Calls'[caller'[f]], CallOf(has_error_handler', f))
<1>1. Shaped' => (\A f \in Frames : caller[f] /= None =>
                     Calls[f] = Pushed(Calls[caller[f]], CallOf(has_error_handler, f)))'
  BY CallsGrow, PTL
<1> QED
  BY <1>1, Zenon

\* task_awaiter::await_suspend is a call.
LEMMA CallStep ==
    ASSUME IInv, IInv', NEW h \in Harts, NEW f, f = running[h], f /= None,
           NEW g \in Frames, owner[g] = f, status[g] \in {"init", "suspend"},
           NEW guarded \in BOOLEAN, executor[f] => guarded, Transfer(h, f, g, guarded)
    PROVE  Stacks!Next
<1>1. f \in Frames /\ f \in Active
  BY RunningFacts, Zenon
<1>2. /\ Active' = (Active \ {f}) \cup {g}
      /\ \A y \in Frames : status'[y] = IF y = g THEN "running" ELSE status[y]
  BY TransferKeeps
<1>3. /\ caller' = [caller EXCEPT ![g] = f]
      /\ has_error_handler' = [has_error_handler EXCEPT ![g] = guarded]
  BY Zenon DEF Transfer
<1>4. /\ owner \in Links /\ Acyclic(owner) /\ caller \in Links
      /\ \A y \in Frames : caller[y] = None \/ caller[y] = owner[y]
  BY CallerFacts, Zenon
<1>5. has_error_handler \in Flags /\ has_error_handler' \in Flags /\ Active \subseteq Frames
  BY ActiveFrames, Zenon DEF IInv, TypeOK, Flags
<1>6. Shaped /\ Shaped' /\ StackView /\ StackView'
  BY IsShaped, NextShaped, StacksAre, NextStacksAre, Zenon
<1>7. ASSUME NEW y \in Active PROVE g \notin Above(caller, y)
  <2>1. y \in Frames
    BY <1>5, Zenon
  <2>2. CASE y = f
    <3>1. g \notin Above(owner, f)
      BY <1>1, <1>4, NoneFacts, AboveNotBelow, Zenon
    <3> QED
      BY <1>4, <2>1, <2>2, <3>1, AboveLess, Zenon
  <2>3. CASE y /= f
    <3>1. f \notin Above(owner, y)
      BY <1>1, <2>1, <2>3, OnlyActive, Zenon
    <3>2. g \notin Above(owner, y)
      BY <1>4, <2>1, <3>1, AboveFacts DEF Closed
    <3> QED
      BY <1>4, <2>1, <3>2, AboveLess, Zenon
  <2> QED
    BY <2>2, <2>3, Zenon
<1>8. ASSUME NEW y \in Active PROVE Calls'[y] = Calls[y]
  <2>1. y \in Frames /\ Above(caller, y) \subseteq Frames
    BY <1>4, <1>5, AboveFacts, Zenon
  <2>2. \A x \in Above(caller, y) : caller'[x] = caller[x] /\ has_error_handler'[x] = has_error_handler[x]
    BY <1>3, <1>4, <1>5, <1>7, <2>1, Zenon DEF Links, Flags
  <2> QED
    BY <1>6, <2>1, <2>2, CallsKept, Zenon
<1>9. caller'[g] = f /\ f \in Frames
  BY <1>1, <1>3, <1>4, Zenon DEF Links
<1>10. PICK s, t, c : s = Calls[f] /\ t = Calls'[g] /\ c = CallOf(has_error_handler', g)
  BY Zenon
<1>11. t = Pushed(s, c)
  BY <1>1, <1>6, <1>8, <1>9, <1>10, NextCallsGrow, Zenon
<1>12. c \in CallSet /\ c[1] = g
  BY <1>5, <1>10, CallFacts, Zenon
<1>13. s \in Seq(CallSet) /\ Len(s) \in Nat /\ Len(s) >= 1
  BY <1>1, <1>6, <1>10, CallsTop, Zenon
<1>14. Len(t) = Len(s) + 1 /\ t[Len(s) + 1] = c /\ \A i \in 1..Len(s) : t[i] = s[i]
  BY <1>11, <1>12, <1>13, AppendCall, Zenon
<1>15. SubSeq(t, 1, Len(s)) = s
  BY <1>11, <1>12, <1>13, AppendFront, Zenon
<1>16. 1 \in 1..Len(s) /\ s /= <<>>
  BY <1>13
<1>17. PICK e : e = Root(s)
  BY Zenon
<1>18. Root(t) = e
  BY <1>14, <1>16, <1>17, Zenon DEF Root
<1>19. e \in Frames /\ TaskStack[e] = s /\ TaskStack'[e] = t
  <2>1. e \in Frames /\ TaskStack[e] = s
    BY <1>1, <1>6, <1>10, <1>17, Zenon DEF StackView
  <2>2. g \in Active' /\ Root(Calls'[g]) = e
    BY <1>2, <1>10, <1>18, Zenon
  <2>3. TaskStack'[e] = Calls'[g]
    BY <1>6, <2>2, Zenon DEF StackView
  <2> QED
    BY <1>10, <2>1, <2>3, Zenon
<1>20. \A d \in Frames : d /= e => TaskStack'[d] = TaskStack[d]
  <2>1. \A y \in Active : (y \in Active' /\ Calls'[y] = Calls[y]) \/ Root(Calls[y]) = e
    BY <1>2, <1>8, <1>10, <1>17, Zenon
  <2>2. \A y \in Active' : (y \in Active /\ Calls'[y] = Calls[y]) \/ Root(Calls'[y]) = e
    BY <1>2, <1>8, <1>10, <1>18, Zenon
  <2> QED
    BY <2>1, <2>2, StacksElsewhere, Zenon
<1>21. Stacks!Call(TaskStack[e], TaskStack'[e])
  <2>1. ~Stacks!OnStack(g)
    BY <1>7, NotOnStack, Zenon
  <2>2. t[Len(t)][1] = g
    BY <1>12, <1>14, Zenon
  <2>3. Fails' \subseteq Fails
    BY <1>2, Zenon DEF Fails
  <2>4. TaskStack[e] /= <<>> /\ Len(TaskStack'[e]) = Len(TaskStack[e]) + 1
    BY <1>14, <1>16, <1>19, Zenon
  <2>5. SubSeq(TaskStack'[e], 1, Len(TaskStack[e])) = TaskStack[e]
    BY <1>15, <1>19, Zenon
  <2>6. TaskStack'[e][Len(TaskStack'[e])][1] = g
    BY <1>19, <2>2, Zenon
  <2> QED
    BY <2>1, <2>3, <2>4, <2>5, <2>6, Zenon DEF Stacks!Call, Fails
<1>22. Stacks!Move(e, TaskStack[e], TaskStack'[e])
  BY <1>21, Zenon DEF Stacks!Move
<1> QED
  BY <1>19, <1>20, <1>22, MoveStep, Zenon

LEMMA SameCalls ==
    ASSUME IInv, IInv', caller' = caller, has_error_handler' = has_error_handler
    PROVE  \A y \in Frames : Calls'[y] = Calls[y]
  BY CallsKept, IsShaped, NextShaped, Zenon

\* Memory that nothing refers to is on no stack.
LEMMA FreeOff ==
    ASSUME IInv, NEW g \in Free
    PROVE  /\ g \in Frames /\ g \notin Active /\ status[g] = "free" /\ caller[g] = None
           /\ \A y \in Active : y \in Frames /\ g \notin Above(caller, y)
<1>1. /\ g \in Frames /\ status[g] = "free" /\ caller[g] = None /\ g \notin Active
      /\ \A x \in Frames : caller[x] /= g
  BY FreshFacts, Zenon
<1>2. caller \in Links /\ Active \subseteq Frames
  BY CallerFacts, ActiveFrames, Zenon DEF IInv
<1>3. Closed(caller, Frames \ {g}) /\ Frames \ {g} \in SUBSET Frames
  BY <1>1, <1>2, Zenon DEF Closed, Links
<1>4. ASSUME NEW y \in Active PROVE y \in Frames /\ g \notin Above(caller, y)
  <2>1. y \in Frames /\ y \in Frames \ {g}
    BY <1>1, <1>2, Zenon
  <2>2. Above(caller, y) \subseteq Frames \ {g}
    BY <1>2, <1>3, <2>1, AboveFacts, Zenon
  <2> QED
    BY <2>1, <2>2, Zenon
<1> QED
  BY <1>1, <1>4, Zenon

\* What each step has to show: a step of the stacks, and clean free memory.
Refines == Stacks!Next /\ FreeFlags'

LEMMA CreateRefines ==
    ASSUME IInv, IInv', FreeFlags, NEW h \in Harts, NEW f, NEW guarded \in BOOLEAN, Create(h, f, guarded)
    PROVE  Refines
<1>1. PICK g \in Free : /\ status' = [status EXCEPT ![g] = "init"]
                        /\ has_error_handler' = [has_error_handler EXCEPT ![g] = guarded]
  BY Zenon DEF Create, Fresh
<1>2. caller' = caller /\ Active' = Active
  BY Zenon DEF Create, placeVars, Active
<1>3. /\ g \in Frames /\ status[g] = "free"
      /\ \A y \in Active : y \in Frames /\ g \notin Above(caller, y)
  BY FreeOff, Zenon
<1>4. /\ status'[g] = "init"
      /\ \A x \in Frames : x /= g => status'[x] = status[x] /\ has_error_handler'[x] = has_error_handler[x]
  BY <1>1, <1>3, Zenon DEF IInv, TypeOK
<1>5. ASSUME NEW y \in Active PROVE Calls'[y] = Calls[y]
  <2>1. y \in Frames /\ g \notin Above(caller, y) /\ Above(caller, y) \subseteq Frames
    BY <1>3, CallerFacts, AboveFacts, Zenon
  <2>2. \A x \in Above(caller, y) : caller'[x] = caller[x] /\ has_error_handler'[x] = has_error_handler[x]
    BY <1>2, <1>4, <2>1, Zenon
  <2> QED
    BY <2>1, <2>2, CallsKept, IsShaped, NextShaped, Zenon
<1>6. Fails' \subseteq Fails
  BY <1>4, Zenon DEF Fails
<1>7. FreeFlags'
  BY <1>4, Zenon DEF FreeFlags
<1> QED
  BY <1>2, <1>5, <1>6, <1>7, ForgetStep, Zenon DEF Refines

LEMMA SpawnRefines ==
    ASSUME IInv, IInv', FreeFlags, NEW ny \in BOOLEAN, Spawn(ny)
    PROVE  Refines
<1>1. PICK p \in Free :
         \/ UNCHANGED <<frameVars, queue>>
         \/ \E e \in Free \ {p} :
              /\ status' = [status EXCEPT ![p] = "init", ![e] = "init"]
              /\ queue' = Append(queue, e)
              /\ UNCHANGED <<caller, has_error_handler>>
  BY Zenon DEF Spawn, Fresh
<1>2. asleep' = asleep /\ running' = running
  BY Zenon DEF Spawn
<1>3. CASE UNCHANGED <<frameVars, queue>>
  <2>1. caller' = caller /\ has_error_handler' = has_error_handler /\ status' = status /\ Active' = Active
    BY <1>2, <1>3, Zenon DEF frameVars, Active
  <2>2. \A y \in Active : Calls'[y] = Calls[y]
    BY <2>1, SameCalls, ActiveFrames, Zenon DEF IInv
  <2>3. Fails' \subseteq Fails /\ FreeFlags'
    BY <2>1, Zenon DEF Fails, FreeFlags
  <2> QED
    BY <2>1, <2>2, <2>3, ForgetStep, Zenon DEF Refines
<1>4. ASSUME NEW e \in Free \ {p},
             status' = [status EXCEPT ![p] = "init", ![e] = "init"],
             queue' = Append(queue, e),
             UNCHANGED <<caller, has_error_handler>>
      PROVE  Refines
  <2>1. /\ e \in Frames /\ e \notin Active /\ status[e] = "free" /\ caller[e] = None
        /\ \A y \in Active : y \in Frames /\ e \notin Above(caller, y)
    BY FreeOff, Zenon
  <2>2. p \in Frames /\ status[p] = "free"
    BY FreeOff, Zenon
  <2>3. \A x \in Frames : status'[x] = status[x] \/ status'[x] = "init"
    BY <1>4, <2>1, <2>2, Zenon DEF IInv, TypeOK
  <2>4. FreeFlags' /\ Fails' \subseteq Fails
    BY <1>4, <2>3, Zenon DEF Fails, FreeFlags
  <2>5. Active' = Active \cup {e}
    <3>1. e \notin Range(queue)
      BY <2>1, Zenon DEF Active
    <3>2. Range(queue') = Range(queue) \cup {e}
      BY <1>4, <2>1, <3>1, PlaceFacts, AppendFacts, Zenon
    <3> QED
      BY <1>2, <2>1, <3>2, NoneFacts, Zenon DEF Active
  <2>6. \A y \in Frames : Calls'[y] = Calls[y]
    BY <1>4, SameCalls, Zenon
  <2>7. Shaped /\ StackView /\ StackView'
    BY IsShaped, StacksAre, NextStacksAre, Zenon
  <2>8. ~has_error_handler[e] /\ has_error_handler[e] \in BOOLEAN
    BY <2>1, Zenon DEF FreeFlags, IInv, TypeOK
  <2>9. Calls[e] = <<<<e, FALSE>>>>
    <3>1. Calls[e] = <<CallOf(has_error_handler, e)>>
      BY <2>1, <2>7, CallsTop, Zenon
    <3>2. has_error_handler[e] = FALSE
      BY <2>8, Zenon
    <3>3. CallOf(has_error_handler, e) = <<e, FALSE>>
      BY <3>2, Zenon DEF CallOf
    <3> QED
      BY <3>1, <3>3, Zenon
  <2>10. Root(Calls[e]) = e
    BY <2>9 DEF Root
  <2>11. ASSUME NEW y \in Active PROVE Root(Calls[y]) /= e
    <3>1. /\ Len(Calls[y]) \in Nat /\ Len(Calls[y]) >= 1
          /\ {Calls[y][j][1] : j \in 1..Len(Calls[y])} = Above(caller, y)
      BY <2>1, <2>7, CallsTop, Zenon
    <3>2. 1 \in 1..Len(Calls[y])
      BY <3>1
    <3>3. Root(Calls[y]) \in Above(caller, y)
      BY <3>1, <3>2, Zenon DEF Root
    <3> QED
      BY <2>1, <3>3, Zenon
  <2>12. TaskStack[e] = <<>>
    BY <2>1, <2>7, <2>11, Zenon DEF StackView
  <2>13. TaskStack'[e] = <<<<e, FALSE>>>>
    <3>1. e \in Active' /\ Calls'[e] = Calls[e] /\ Root(Calls'[e]) = e
      BY <2>1, <2>5, <2>6, <2>10, Zenon
    <3>2. TaskStack'[e] = Calls'[e]
      BY <2>7, <3>1, Zenon DEF StackView
    <3> QED
      BY <2>9, <3>1, <3>2, Zenon
  <2>14. \A d \in Frames : d /= e => TaskStack'[d] = TaskStack[d]
    <3>1. \A y \in Active : y \in Active' /\ Calls'[y] = Calls[y]
      BY <2>1, <2>5, <2>6, Zenon
    <3>2. \A y \in Active' : (y \in Active /\ Calls'[y] = Calls[y]) \/ Root(Calls'[y]) = e
      BY <2>1, <2>5, <2>6, <2>10, Zenon
    <3> QED
      BY <3>1, <3>2, StacksElsewhere, Zenon
  <2>15. Stacks!Move(e, TaskStack[e], TaskStack'[e])
    <3>1. Stacks!Spawn(e, TaskStack[e], TaskStack'[e])
      BY <2>4, <2>12, <2>13, Zenon DEF Stacks!Spawn, Fails
    <3> QED
      BY <3>1, Zenon DEF Stacks!Move
  <2>16. Stacks!Next
    BY <2>1, <2>14, <2>15, MoveStep, Zenon
  <2> QED
    BY <2>4, <2>16, Zenon DEF Refines
<1> QED
  BY <1>1, <1>3, <1>4, Zenon

LEMMA MovedRefines ==
    ASSUME IInv, IInv', FreeFlags, Moved
    PROVE  Refines
<1>1. /\ caller' = caller /\ has_error_handler' = has_error_handler /\ Active' = Active
      /\ \A y \in Frames : \/ status'[y] = status[y]
                           \/ status[y] /= "free" /\ status'[y] = "running"
  BY Zenon DEF Moved
<1>2. \A y \in Active : Calls'[y] = Calls[y]
  BY <1>1, SameCalls, ActiveFrames, Zenon DEF IInv
<1>3. Fails' \subseteq Fails /\ FreeFlags'
  BY <1>1, Zenon DEF Fails, FreeFlags
<1> QED
  BY <1>1, <1>2, <1>3, ForgetStep, Zenon DEF Refines

LEMMA AwaitRefines ==
    ASSUME IInv, IInv', FreeFlags, NEW h \in Harts, NEW f, NEW g \in Frames,
           Await(h, f, g) \/ AwaitNext(h, f, g) \/ ExecutorAwait(h, f, g)
    PROVE  Refines
<1>1. /\ f = running[h] /\ f /= None /\ owner[g] = f
      /\ status[g] \in {"init", "suspend"}
  BY Zenon DEF Await, AwaitNext, ExecutorAwait, Body
<1>2. PICK guarded \in BOOLEAN : (executor[f] => guarded) /\ Transfer(h, f, g, guarded)
  <2>1. has_error_handler[g] \in BOOLEAN /\ TRUE \in BOOLEAN
    BY Zenon DEF IInv, TypeOK
  <2> QED
    BY <2>1, Zenon DEF Await, AwaitNext, ExecutorAwait, Body
<1>3. \A y \in Frames : status'[y] = IF y = g THEN "running" ELSE status[y]
  BY <1>1, <1>2, TransferKeeps
<1>4. \A y \in Frames : y /= g => has_error_handler'[y] = has_error_handler[y]
  BY <1>2, Zenon DEF Transfer, IInv, TypeOK
<1>5. FreeFlags'
  BY <1>3, <1>4, Zenon DEF FreeFlags
<1> QED
  BY <1>1, <1>2, <1>5, CallStep, Zenon DEF Refines

LEMMA StackRefines ==
    ASSUME IInv, IInv', FreeFlags, NEW h \in Harts, NEW f,
           \/ Return(h, f) \/ CoYield(h, f) \/ Fail(h, f) \/ AwaitNoMemory(h, f)
           \/ \E g \in Frames : Drop(h, f, g)
           \/ ExecutorReturn(h, f)
    PROVE  Refines
<1>1. ASSUME NEW x, NEW S, NEW st, StackStep(h, x, S, st)
      PROVE  FreeFlags' /\ \A y \in Frames : status'[y] = "fail" => st[y] = "fail"
  <2>1. /\ Begun(st) /\ status' = [y \in Frames |-> IF y \in S THEN "free" ELSE st[y]]
        /\ has_error_handler' = [y \in Frames |-> IF y \in S THEN FALSE ELSE has_error_handler[y]]
    BY <1>1, Zenon DEF StackStep, Destroy
  <2> QED
    BY <2>1, Zenon DEF Begun, FreeFlags
<1>2. CASE Return(h, f)
  <2>1. StackStep(h, caller[f], Owned(f) \ {f}, [status EXCEPT ![f] = "done"])
    BY <1>2, ReturnSteps, Zenon
  <2>2. f = running[h] /\ running[h] /= None /\ f \in Frames /\ caller[f] /= None
    BY <1>2, BodyFacts, Zenon DEF Return
  <2>3. FreeFlags' /\ \A y \in Frames : status'[y] = "fail" => [status EXCEPT ![f] = "done"][y] = "fail"
    BY <1>1, <2>1, Zenon
  <2>4. Fails' \subseteq Fails
    BY <2>2, <2>3, Zenon DEF Fails, IInv, TypeOK
  <2>5. Stacks!Next
    BY <2>1, <2>2, <2>4, ReturnStep, Zenon
  <2> QED
    BY <2>3, <2>5, Zenon DEF Refines
<1>3. CASE CoYield(h, f)
  <2>1. StackStep(h, caller[f], {}, status')
    BY <1>3, CoYieldSteps, Zenon
  <2>2. f = running[h] /\ running[h] /= None /\ f \in Frames /\ caller[f] /= None
    BY <1>3, BodyFacts, Zenon DEF CoYield
  <2>3. FreeFlags'
    BY <1>1, <2>1, Zenon
  <2>4. Fails' \subseteq Fails
    BY <1>3, <2>2, Zenon DEF CoYield, Fails, IInv, TypeOK
  <2>5. Stacks!Next
    BY <2>1, <2>2, <2>4, ReturnStep, Zenon
  <2> QED
    BY <2>3, <2>5, Zenon DEF Refines
<1>4. CASE Fail(h, f)
  <2>1. PICK x : StackStep(h, x, Owned(f) \ {f}, Failed(f))
    BY <1>4, FailSteps, Zenon
  <2>2. Body(h, f) /\ Unwind(h, f) /\ f \notin Owned(f) \ {f}
    BY <1>4, Zenon DEF Fail
  <2>3. FreeFlags'
    BY <1>1, <2>1, Zenon
  <2>4. Stacks!Next
    BY <2>1, <2>2, ThrowStep, Zenon
  <2> QED
    BY <2>3, <2>4, Zenon DEF Refines
<1>5. CASE AwaitNoMemory(h, f)
  <2>1. PICK x : StackStep(h, x, {}, status')
    BY <1>5, AwaitNoMemorySteps, Zenon
  <2>2. Body(h, f) /\ Unwind(h, f) /\ status' = Failed(f) /\ f \notin {}
    BY <1>5, Zenon DEF AwaitNoMemory
  <2>3. FreeFlags'
    BY <1>1, <2>1, Zenon
  <2>4. StackStep(h, x, {}, Failed(f))
    BY <2>1, <2>2, Zenon
  <2>5. Stacks!Next
    BY <2>2, <2>4, ThrowStep, Zenon
  <2> QED
    BY <2>3, <2>5, Zenon DEF Refines
<1>6. ASSUME NEW g \in Frames, Drop(h, f, g) PROVE Refines
  <2>1. StackStep(h, f, Owned(g), status)
    BY <1>6, DropSteps, Zenon
  <2>2. f = running[h] /\ running[h] /= None /\ f \in Frames /\ f \in Active
    BY <1>6, BodyFacts DEF Drop
  <2>3. FreeFlags' /\ Fails' \subseteq Fails
    BY <1>1, <2>1, Zenon DEF Fails
  <2>4. Active' = (Active \ {f}) \cup ({f} \ {None})
    BY <2>1, <2>2, StackStepKeeps, Zenon
  <2>5. Active' = Active /\ Active \subseteq Frames
    BY <2>2, <2>4, NoneFacts, ActiveFrames, Zenon DEF IInv
  <2>6. \A y \in Owned(g) : f \in Above(owner, y) /\ y /= f
    <3>1. /\ \A y \in Owned(g) : f \in Above(owner, y)
          /\ f \notin Owned(g)
      BY <2>1, <2>2, NoneFacts, Zenon DEF StackStep
    <3> QED
      BY <3>1, Zenon
  <2>7. \A y \in Active : y \in Frames /\ y \notin Owned(g)
    BY <2>2, <2>5, <2>6, OnlyActive, Zenon
  <2>8. \A y \in Active : Calls'[y] = Calls[y]
    BY <2>1, <2>7, StackStepCalls, Zenon
  <2>9. Stacks!Next
    BY <2>3, <2>5, <2>8, ForgetStep, Zenon
  <2> QED
    BY <2>3, <2>9, Zenon DEF Refines
<1>7. CASE ExecutorReturn(h, f)
  <2>1. StackStep(h, None, Owned(f), status) /\ f = running[h] /\ running[h] /= None
    BY <1>7, ExecutorReturnSteps, Zenon
  <2>2. FreeFlags' /\ Fails' \subseteq Fails
    BY <1>1, <2>1, Zenon DEF Fails
  <2>3. Stacks!Next
    BY <2>1, <2>2, EndStep, Zenon
  <2> QED
    BY <2>2, <2>3, Zenon DEF Refines
<1> QED
  BY <1>2, <1>3, <1>4, <1>5, <1>6, <1>7, Zenon

LEMMA StepRefines ==
    ASSUME IInv, IInv', FreeFlags, Next
    PROVE  Refines
<1>1. ASSUME NEW h \in Harts, HartStep(h) PROVE Refines
  <2>1. CASE Resume(h)
    BY <2>1, ResumeMoves, MovedRefines, Zenon
  <2>2. ASSUME NEW f \in Frames, BodyStep(h, f) PROVE Refines
    BY <2>2, SuspendMoves, MovedRefines, CreateRefines, AwaitRefines, StackRefines, Zenon DEF BodyStep
  <2>3. ASSUME NEW f \in Frames, ExecutorReturn(h, f) PROVE Refines
    BY <2>3, StackRefines, Zenon
  <2>4. ASSUME NEW f \in Frames, NEW p \in Frames, ExecutorAwait(h, f, p) PROVE Refines
    BY <2>4, AwaitRefines, Zenon
  <2> QED
    BY <1>1, <2>1, <2>2, <2>3, <2>4, Zenon DEF HartStep
<1>2. ASSUME NEW f \in Frames, WakeUp(f) PROVE Refines
  BY <1>2, WakeUpMoves, MovedRefines, Zenon
<1>3. ASSUME NEW ny \in BOOLEAN, Spawn(ny) PROVE Refines
  BY <1>3, SpawnRefines, Zenon
<1> QED
  BY <1>1, <1>2, <1>3, Zenon DEF Next, Progress

LEMMA InitRefines ==
    ASSUME Init
    PROVE  Stacks!Init /\ FreeFlags
<1>1. IInv
  BY InitKeeps, Zenon
<1>2. Active = {}
  BY DEF Init, Active, Range
<1>3. \A e \in Frames : TaskStack[e] = <<>>
  BY <1>1, <1>2, StacksAre, Zenon DEF StackView
<1>4. TaskStack = [e \in Frames |-> <<>>]
  BY <1>3, Zenon DEF TaskStack
<1>5. {f \in Frames : status[f] = "fail"} = {}
  BY Zenon DEF Init
<1>6. FreeFlags
  BY Zenon DEF Init, FreeFlags
<1> QED
  BY <1>4, <1>5, <1>6, Zenon DEF Stacks!Init

\* co_await, co_return, co_yield and task_fail are calls, returns and
\* exceptions on one stack per scheduled task, for any frames, harts and
\* bodies: a failure continues at the caller of the innermost frame with
\* has_error_handler, every frame above is left, and no other task is touched.
THEOREM CoroutineImplementsCallStack == Spec => ImplementsCallStack
<1>1. IInv /\ IInv' /\ FreeFlags /\ [Next]_vars =>
          [Stacks!Next]_<<TaskStack, {f \in Frames : status[f] = "fail"}>> /\ FreeFlags'
  <2> SUFFICES ASSUME IInv, IInv', FreeFlags, [Next]_vars
               PROVE  [Stacks!Next]_<<TaskStack, {f \in Frames : status[f] = "fail"}>> /\ FreeFlags'
    BY Zenon
  <2>1. CASE Next
    BY <2>1, StepRefines, Zenon DEF Refines
  <2>2. CASE UNCHANGED vars
    <3>1. /\ status' = status /\ caller' = caller /\ has_error_handler' = has_error_handler
          /\ queue' = queue /\ asleep' = asleep /\ running' = running
      BY <2>2, Zenon DEF vars, frameVars, placeVars
    <3>2. Active' = Active
      BY <3>1, Zenon DEF Active
    <3>3. \A y \in Active : Calls'[y] = Calls[y]
      BY <3>1, SameCalls, ActiveFrames, Zenon DEF IInv
    <3>4. Fails' \subseteq Fails /\ FreeFlags'
      BY <3>1, Zenon DEF Fails, FreeFlags
    <3>5. Stacks!Next
      BY <3>2, <3>3, <3>4, ForgetStep, Zenon
    <3> QED
      BY <3>4, <3>5, Zenon
  <2> QED
    BY <2>1, <2>2, Zenon
<1> QED
  BY <1>1, InitRefines, TasksAreTrees, PTL DEF Spec, ImplementsCallStack, Stacks!Spec
====
