----------------------------- MODULE PagesProofs -----------------------------
(***************************************************************************)
(* Proofs about the four pages of Computer Graphics: for any number of     *)
(* cues and balls, for every timing of the frames and for updates that may *)
(* come as late as they like, for windows of every size and whatever page  *)
(* is open; at the end, the types of all four.                             *)
(***************************************************************************)
EXTENDS Pages, TLAPS

-----------------------------------------------------------------------------
\* The billiard table.  0 stands for no cue and no ball.
LEMMA NoZero == Tacos \subseteq Balls /\ Balls \subseteq Nat /\ 0 \notin Balls /\ 0 \notin Tacos
  BY PagesAssumption DEF Billiards!BilliardsAssumption

-----------------------------------------------------------------------------
\* The cue that is selected, and the one that is red.
CueInv == /\ selectedTaco \in Tacos \cup {0} /\ red \subseteq Tacos
          /\ SelectedIsRed

LEMMA FrameKeepsCueInv == CueInv /\ Billiards!animate => CueInv'
<1> SUFFICES ASSUME CueInv, Billiards!animate PROVE CueInv'
  OBVIOUS
<1> USE NoZero DEF CueInv, SelectedIsRed, Billiards!SelectedIsRed
<1>1. CASE Billiards!Frame
  BY <1>1 DEF Billiards!Frame, Billiards!Coloured, Billiards!Chosen, Billiards!Freed, Billiards!NoCue
<1>2. CASE Billiards!FrameThrows
  BY <1>2 DEF Billiards!FrameThrows, Billiards!Coloured, Billiards!Chosen, Billiards!Freed,
              Billiards!NoCue, Billiards!cue
<1> QED
  BY <1>1, <1>2 DEF Billiards!animate

LEMMA NextKeepsCueInv == CueInv /\ [Next]_vars => CueInv'
<1> SUFFICES ASSUME CueInv, [Next]_vars PROVE CueInv'
  OBVIOUS
<1>1. CASE OpenBilliards
  <2>1. ASSUME NEW n \in Tacos, Billiards!callTaco(n) PROVE CueInv'
    BY <2>1, NoZero DEF CueInv, SelectedIsRed, Billiards!SelectedIsRed, Billiards!callTaco,
                        Billiards!Select, Billiards!GiveBack
  <2>2. CASE UNCHANGED Billiards!cue
    BY <2>2 DEF CueInv, SelectedIsRed, Billiards!SelectedIsRed, Billiards!cue
  <2> QED
    BY <1>1, <2>1, <2>2, FrameKeepsCueInv DEF OpenBilliards, Billiards!Next, Billiards!Key,
       Billiards!Press, Billiards!Release, Billiards!Space, Billiards!LookFromTable,
       Billiards!LookFromBall, Billiards!update, Billiards!Frozen, Billiards!vars
<1>2. CASE UNCHANGED billiards
  BY <1>2 DEF billiards, CueInv, SelectedIsRed, Billiards!SelectedIsRed
<1> QED
  BY <1>1, <1>2 DEF Next, vars, OpenMobile, OpenCar, OpenGolf

LEMMA InitCueInv == Init => CueInv
  BY NoZero DEF Init, Billiards!Init, CueInv, SelectedIsRed, Billiards!SelectedIsRed

\* The red cue is the selected one, and one that is not red yet will be.
THEOREM BilliardsSelectedIsRed == Spec => []SelectedIsRed
<1>1. CueInv => SelectedIsRed
  BY DEF CueInv
<1> QED
  BY <1>1, InitCueInv, NextKeepsCueInv, PTL DEF Spec

-----------------------------------------------------------------------------
\* A ball is given to a cue by its selection only.
HandInv == selectedBall \in Tacos \cup {0}

LEMMA NextKeepsHandInv == HandInv /\ [Next]_vars => HandInv'
<1> SUFFICES ASSUME HandInv, [Next]_vars PROVE HandInv'
  OBVIOUS
<1>1. CASE OpenBilliards
  BY <1>1 DEF HandInv, OpenBilliards, Billiards!Next, Billiards!Key, Billiards!callTaco,
     Billiards!Select, Billiards!GiveBack, Billiards!animate, Billiards!Frame,
     Billiards!FrameThrows, Billiards!Press, Billiards!Release, Billiards!Space,
     Billiards!LookFromTable, Billiards!LookFromBall, Billiards!update, Billiards!Frozen,
     Billiards!vars, Billiards!cue
<1>2. CASE UNCHANGED billiards
  BY <1>2 DEF billiards, HandInv
<1> QED
  BY <1>1, <1>2 DEF Next, vars, OpenMobile, OpenCar, OpenGolf

\* What falls is a ball that has been shot or hit, until a new ball comes.
FallInv == /\ Waits
           /\ falling \in playable \cup {0}
           /\ playable \subseteq Balls

LEMMA PlaceKeepsFallInv ==
  ASSUME FallInv, NEW n \in Balls, Billiards!checkBallPlace(n)
  PROVE  FallInv'
  BY NoZero DEF FallInv, Waits, Billiards!Waits, Billiards!checkBallPlace

LEMMA FrameKeepsFallInv ==
  ASSUME FallInv, HandInv, Billiards!animate
  PROVE  FallInv'
<1> USE NoZero DEF FallInv, Waits, Billiards!Waits, Billiards!doInfinite
<1>1. CASE Billiards!Frame
  <2>1. tacada => selectedBall \in Balls
    BY <1>1 DEF HandInv, Billiards!Frame, Billiards!NoBallShot
  <2>2. playable \subseteq playable' /\ playable' \subseteq Balls /\ moving' \subseteq playable'
    BY <1>1, <2>1 DEF Billiards!Frame, Billiards!daTacada
  <2>3. sunk' \subseteq playable /\ falling' \in playable \cup {0}
    BY <1>1 DEF Billiards!Frame
  <2> QED
    BY <2>2, <2>3
<1>2. CASE Billiards!FrameThrows
  BY <1>2 DEF Billiards!FrameThrows
<1> QED
  BY <1>1, <1>2 DEF Billiards!animate

LEMMA NextKeepsFallInv == FallInv /\ HandInv /\ [Next]_vars => FallInv'
<1> SUFFICES ASSUME FallInv, HandInv, [Next]_vars PROVE FallInv'
  OBVIOUS
<1>1. CASE OpenBilliards
  <2>1. ASSUME NEW n \in Tacos, Billiards!callTaco(n) PROVE FallInv'
    <3>1. CASE Billiards!Select(n)
      BY <3>1, NoZero, PlaceKeepsFallInv DEF Billiards!Select
    <3>2. CASE Billiards!GiveBack(n)
      BY <3>2 DEF Billiards!GiveBack, Billiards!ball, FallInv, Waits, Billiards!Waits
    <3> QED
      BY <2>1, <3>1, <3>2 DEF Billiards!callTaco
  <2>2. CASE Billiards!animate
    BY <2>2, FrameKeepsFallInv
  <2>3. CASE Billiards!update
    BY <2>3 DEF Billiards!update, FallInv, Waits, Billiards!Waits
  <2>4. CASE UNCHANGED Billiards!ball
    BY <2>4 DEF FallInv, Waits, Billiards!Waits, Billiards!ball
  <2> QED
    BY <1>1, <2>1, <2>2, <2>3, <2>4 DEF OpenBilliards, Billiards!Next, Billiards!Key,
       Billiards!Press, Billiards!Release, Billiards!Space, Billiards!LookFromTable,
       Billiards!LookFromBall, Billiards!Frozen, Billiards!vars
<1>2. CASE UNCHANGED billiards
  BY <1>2 DEF billiards, FallInv, Waits, Billiards!Waits
<1> QED
  BY <1>1, <1>2 DEF Next, vars, OpenMobile, OpenCar, OpenGolf

\* A ball that waits for its cue neither rolls nor falls.
THEOREM BilliardsWaits == Spec => []Waits
<1>1. Init => FallInv /\ HandInv
  BY NoZero DEF Init, Billiards!Init, FallInv, HandInv, Waits, Billiards!Waits
<1>2. FallInv => Waits
  BY DEF FallInv
<1> QED
  BY <1>1, <1>2, NextKeepsHandInv, NextKeepsFallInv, PTL DEF Spec

-----------------------------------------------------------------------------
\* The angles of cues and balls: only the selected cue is not straight.
AimInv == /\ tacoAng \in [Tacos -> Int] /\ ballAng \in [Balls -> Int]
          /\ \A t \in Tacos : t # selectedTaco => tacoAng[t] = 0
          /\ selectedTaco # 0 => selectedBall \in {0, selectedTaco}
          /\ AimTogether

LEMMA SelectKeepsAimInv ==
  ASSUME AimInv, NEW n \in Tacos, Billiards!callTaco(n)
  PROVE  AimInv'
<1> USE NoZero DEF AimInv, AimTogether, Billiards!AimTogether, Billiards!callTaco
<1>1. CASE Billiards!Select(n)
  <2>1. ballAng' \in [Balls -> Int] /\ ballAng'[n] = 0 /\ tacoAng[n] = 0
    BY <1>1 DEF Billiards!Select, Billiards!checkBallPlace
  <2> QED
    BY <1>1, <2>1 DEF Billiards!Select
<1>2. CASE Billiards!GiveBack(n)
  BY <1>2 DEF Billiards!GiveBack, Billiards!ball
<1> QED
  BY <1>1, <1>2

\* A frame that turns a cue turns its ball as far, or shoots it.
LEMMA FrameKeepsAimInv ==
  ASSUME AimInv, CueInv, HandInv, Billiards!animate
  PROVE  AimInv'
<1> USE NoZero DEF CueInv, HandInv
<1>1. Billiards!Chosen = IF Billiards!Freed THEN 0 ELSE selectedTaco
  BY DEF Billiards!Chosen
<1>2. CASE Billiards!Frame /\ Billiards!Turns
  <2>1. /\ Billiards!Chosen = selectedTaco /\ selectedTaco \in Tacos
        /\ selectedBall = selectedTaco
    BY <1>1, <1>2 DEF Billiards!Turns, Billiards!Frame, Billiards!NoBallTurns, AimInv
  <2>2. Billiards!Turned \in Int
    BY <2>1 DEF Billiards!Turned, Billiards!Left, Billiards!Right, AimInv
  <2>3. /\ tacoAng' = [tacoAng EXCEPT ![selectedTaco] = Billiards!Turned]
        /\ ballAng' = [ballAng EXCEPT ![selectedTaco] =
                         IF tacada THEN 0 ELSE @ + Billiards!Turned - tacoAng[selectedTaco]]
    BY <1>2, <2>1 DEF Billiards!Frame, Billiards!direcionaTaco
  <2>4. UNCHANGED <<selectedTaco, selectedBall>>
    BY <1>2, <2>1 DEF Billiards!Frame
  <2>5. /\ playable \subseteq playable'
        /\ tacada => selectedTaco \in playable'
    BY <1>2, <2>1 DEF Billiards!Frame, Billiards!daTacada
  <2>6. tacoAng' \in [Tacos -> Int] /\ ballAng' \in [Balls -> Int]
    BY <2>1, <2>2, <2>3 DEF AimInv
  <2>7. ~tacada /\ selectedTaco \notin playable => ballAng'[selectedTaco] = tacoAng'[selectedTaco]
    <3>1. ballAng[selectedTaco] \in Int /\ tacoAng[selectedTaco] \in Int
      BY <2>1 DEF AimInv
    <3> QED
      BY <2>1, <2>2, <2>3, <3>1 DEF AimInv, AimTogether, Billiards!AimTogether
  <2>8. \A t \in Tacos : t # selectedTaco => tacoAng'[t] = 0
    BY <2>1, <2>3 DEF AimInv
  <2> QED
    BY <2>1, <2>4, <2>5, <2>6, <2>7, <2>8 DEF AimInv, AimTogether, Billiards!AimTogether
<1>3. CASE Billiards!Frame /\ ~Billiards!Turns
  <2>1. /\ Billiards!Straighten
        /\ ballAng' = [n \in Balls |-> IF tacada /\ n = selectedBall THEN 0 ELSE ballAng[n]]
        /\ selectedTaco' = Billiards!Chosen /\ selectedBall' = selectedBall
    BY <1>3 DEF Billiards!Frame, Billiards!direcionaTaco
  <2>2. /\ playable \subseteq playable'
        /\ tacada => selectedBall \in playable'
    BY <1>3 DEF Billiards!Frame, Billiards!daTacada
  <2> QED
    BY <1>1, <2>1, <2>2 DEF AimInv, AimTogether, Billiards!AimTogether, Billiards!Straighten,
                            Billiards!Freed
<1>4. CASE Billiards!FrameThrows
  BY <1>1, <1>4 DEF Billiards!FrameThrows, Billiards!cue, Billiards!Straighten, Billiards!Freed,
                    AimInv, AimTogether, Billiards!AimTogether
<1> QED
  BY <1>2, <1>3, <1>4 DEF Billiards!animate

LEMMA NextKeepsAimInv == AimInv /\ CueInv /\ HandInv /\ [Next]_vars => AimInv'
<1> SUFFICES ASSUME AimInv, CueInv, HandInv, [Next]_vars PROVE AimInv'
  OBVIOUS
<1>1. CASE OpenBilliards
  <2>1. CASE UNCHANGED <<Billiards!cue, ballAng, playable>>
    BY <2>1 DEF AimInv, AimTogether, Billiards!AimTogether, Billiards!cue
  <2> QED
    BY <1>1, <2>1, SelectKeepsAimInv, FrameKeepsAimInv DEF OpenBilliards, Billiards!Next,
       Billiards!Key, Billiards!Press, Billiards!Release, Billiards!Space,
       Billiards!LookFromTable, Billiards!LookFromBall, Billiards!update, Billiards!Frozen,
       Billiards!vars, Billiards!ball
<1>2. CASE UNCHANGED billiards
  BY <1>2 DEF billiards, AimInv, AimTogether, Billiards!AimTogether
<1> QED
  BY <1>1, <1>2 DEF Next, vars, OpenMobile, OpenCar, OpenGolf

\* Until it is shot a ball points where its cue points.
THEOREM BilliardsAimTogether == Spec => []AimTogether
<1>1. Init => AimInv /\ HandInv
  BY NoZero DEF Init, Billiards!Init, AimInv, HandInv, AimTogether, Billiards!AimTogether
<1>2. AimInv => AimTogether
  BY DEF AimInv
<1> QED
  BY <1>1, <1>2, InitCueInv, NextKeepsCueInv, NextKeepsHandInv, NextKeepsAimInv, PTL DEF Spec

-----------------------------------------------------------------------------
\* The tree: the pivots that balls have hang in the scene, all others nowhere,
\* and the camera on one of them or nowhere.
TreeInv == /\ pivotBall \in [Balls -> Billiards!Pivots]
           /\ \A n \in Balls : pivotBall[n] \in {n} \X (1 .. 3)
           /\ DOMAIN parent = Billiards!Pivots \cup {CameraMovel}
           /\ parent \in [DOMAIN parent -> Billiards!Pivots \cup {Scene, Nowhere}]
           /\ \A n \in Balls : \A p \in {n} \X (1 .. 3) :
                parent[p] = IF p = pivotBall[n] THEN Scene ELSE Nowhere
           /\ parent[CameraMovel] \in Billiards!Pivots \cup {Nowhere}

LEMMA Tree == /\ Scene # CameraMovel /\ Scene # Nowhere /\ CameraMovel # Nowhere
              /\ Billiards!Pivots \cap {Scene, CameraMovel, Nowhere} = {}
              /\ Billiards!Pivots = Balls \X (1 .. 3)
  BY PagesAssumption DEF Billiards!BilliardsAssumption, Billiards!Pivots

\* Of three pivots one is free: the ball's own has just been taken out of the
\* scene, and the camera hangs on one at most.
LEMMA PlaceKeepsTree ==
  ASSUME TreeInv, NEW n \in Balls, Billiards!checkBallPlace(n)
  PROVE  TreeInv'
<1> DEFINE without == Billiards!remove(parent, Scene, pivotBall[n])
           new     == CHOOSE p \in {n} \X (1 .. 3) : Billiards!Unused(without, p)
<1>1. /\ pivotBall[n] \in {n} \X (1 .. 3)
      /\ {n} \X (1 .. 3) \subseteq Billiards!Pivots
      /\ {n} \X (1 .. 3) \subseteq DOMAIN parent
  BY Tree DEF TreeInv
<1>2. without = [parent EXCEPT ![pivotBall[n]] = Nowhere]
  BY <1>1 DEF TreeInv, Billiards!remove
<1>3. /\ DOMAIN without = DOMAIN parent
      /\ without[CameraMovel] = parent[CameraMovel]
      /\ \A p \in {n} \X (1 .. 3) : without[p] = Nowhere
      /\ \A p \in Billiards!Pivots : p[1] # n => without[p] = parent[p]
  BY <1>1, <1>2, Tree DEF TreeInv
<1>4. \E p \in {n} \X (1 .. 3) : Billiards!Unused(without, p)
  <2>1. <<n, 1>> \in {n} \X (1 .. 3) /\ <<n, 2>> \in {n} \X (1 .. 3) /\ <<n, 1>> # <<n, 2>>
    OBVIOUS
  <2>2. CASE without[CameraMovel] = <<n, 1>>
    BY <1>3, <2>1, <2>2 DEF Billiards!Unused
  <2>3. CASE without[CameraMovel] # <<n, 1>>
    BY <1>3, <2>1, <2>3 DEF Billiards!Unused
  <2> QED
    BY <2>2, <2>3
<1>5. new \in {n} \X (1 .. 3)
  BY <1>4
<1>6. /\ pivotBall' = [pivotBall EXCEPT ![n] = new]
      /\ parent' = [without EXCEPT ![new] = Scene]
  BY DEF Billiards!checkBallPlace, Billiards!add
<1> HIDE DEF without, new
<1>7. /\ pivotBall' \in [Balls -> Billiards!Pivots]
      /\ \A k \in Balls : pivotBall'[k] \in {k} \X (1 .. 3)
      /\ pivotBall'[n] = new /\ \A k \in Balls \ {n} : pivotBall'[k] = pivotBall[k]
  BY <1>1, <1>5, <1>6 DEF TreeInv
<1>8. /\ DOMAIN parent' = Billiards!Pivots \cup {CameraMovel}
      /\ parent'[CameraMovel] = parent[CameraMovel]
      /\ \A p \in DOMAIN parent' : parent'[p] = IF p = new THEN Scene ELSE without[p]
  BY <1>1, <1>3, <1>5, <1>6, Tree DEF TreeInv
<1>9. \A k \in Balls : \A p \in {k} \X (1 .. 3) :
        parent'[p] = IF p = pivotBall'[k] THEN Scene ELSE Nowhere
  <2> SUFFICES ASSUME NEW k \in Balls, NEW p \in {k} \X (1 .. 3)
               PROVE  parent'[p] = IF p = pivotBall'[k] THEN Scene ELSE Nowhere
    OBVIOUS
  <2>1. p \in Billiards!Pivots /\ p[1] = k /\ new[1] = n
    BY <1>5, Tree
  <2>2. parent'[p] = IF p = new THEN Scene ELSE without[p]
    BY <1>8, <2>1
  <2>3. CASE k = n
    BY <1>3, <1>7, <2>2, <2>3
  <2>4. CASE k # n
    BY <1>3, <1>7, <2>1, <2>2, <2>4 DEF TreeInv
  <2> QED
    BY <2>3, <2>4
<1>10. parent' \in [DOMAIN parent' -> Billiards!Pivots \cup {Scene, Nowhere}]
  BY <1>1, <1>2, <1>6 DEF TreeInv
<1> QED
  BY <1>7, <1>8, <1>9, <1>10 DEF TreeInv

LEMMA NextKeepsTree == TreeInv /\ HandInv /\ [Next]_vars => TreeInv'
<1> SUFFICES ASSUME TreeInv, HandInv, [Next]_vars PROVE TreeInv'
  OBVIOUS
<1>1. CASE OpenBilliards
  <2>1. ASSUME NEW n \in Tacos, Billiards!callTaco(n) PROVE TreeInv'
    BY <2>1, NoZero, PlaceKeepsTree DEF Billiards!callTaco, Billiards!Select, Billiards!GiveBack,
                                        Billiards!ball, TreeInv
  <2>2. CASE Billiards!LookFromBall
    <3>1. CASE UNCHANGED parent
      BY <2>2, <3>1 DEF Billiards!LookFromBall, Billiards!ball, TreeInv
    <3>2. CASE selectedBall # 0
      <4>1. selectedBall \in Balls /\ pivotBall[selectedBall] \in Billiards!Pivots
        BY <3>2, NoZero DEF HandInv, TreeInv
      <4>2. parent' = [parent EXCEPT ![CameraMovel] = pivotBall[selectedBall]] /\ UNCHANGED pivotBall
        BY <2>2, <3>2 DEF Billiards!LookFromBall, Billiards!add, Billiards!ball
      <4>3. \A n \in Balls : {n} \X (1 .. 3) \subseteq Billiards!Pivots
        BY Tree
      <4>4. \A p \in Billiards!Pivots : parent'[p] = parent[p]
        BY <4>2, Tree DEF TreeInv
      <4>5. parent'[CameraMovel] = pivotBall[selectedBall] /\ DOMAIN parent' = DOMAIN parent
        BY <4>2 DEF TreeInv
      <4>6. parent' \in [DOMAIN parent' -> Billiards!Pivots \cup {Scene, Nowhere}]
        BY <4>1, <4>2 DEF TreeInv
      <4> QED
        BY <4>1, <4>2, <4>3, <4>4, <4>5, <4>6 DEF TreeInv
    <3> QED
      BY <2>2, <3>1, <3>2 DEF Billiards!LookFromBall
  <2>3. CASE UNCHANGED <<parent, pivotBall>>
    BY <2>3 DEF TreeInv
  <2> QED
    BY <1>1, <2>1, <2>2, <2>3 DEF OpenBilliards, Billiards!Next, Billiards!Key, Billiards!Press,
       Billiards!Release, Billiards!Space, Billiards!LookFromTable, Billiards!animate,
       Billiards!Frame, Billiards!FrameThrows, Billiards!update, Billiards!Frozen,
       Billiards!vars, Billiards!ball, Billiards!view
<1>2. CASE UNCHANGED billiards
  BY <1>2 DEF billiards, TreeInv
<1> QED
  BY <1>1, <1>2 DEF Next, vars, OpenMobile, OpenCar, OpenGolf

LEMMA TreeHasOneOfEach == TreeInv => OneOfEachBall
<1> SUFFICES ASSUME TreeInv PROVE OneOfEachBall
  OBVIOUS
<1>1. ASSUME NEW n \in Balls
      PROVE  pivotBall[n] \in DOMAIN parent /\ parent[pivotBall[n]] = Scene
  BY Tree DEF TreeInv
<1>2. ASSUME NEW o \in DOMAIN parent, parent[o] = Scene
      PROVE  \E n \in Balls : o = pivotBall[n]
  <2>1. o \in Billiards!Pivots
    BY <1>2, Tree DEF TreeInv
  <2>2. PICK n \in Balls : o \in {n} \X (1 .. 3)
    BY <2>1, Tree
  <2> QED
    BY <1>2, <2>2, Tree DEF TreeInv
<1> QED
  BY <1>1, <1>2 DEF OneOfEachBall, Billiards!OneOfEachBall, Billiards!Children

LEMMA InitTree == Init => TreeInv
<1> SUFFICES ASSUME Init PROVE TreeInv
  OBVIOUS
<1>1. /\ pivotBall = [n \in Balls |-> <<n, 1>>]
      /\ parent = [o \in Billiards!Pivots \cup {CameraMovel} |->
                     IF o \in Billiards!Pivots /\ o[2] = 1 THEN Scene ELSE Nowhere]
  BY DEF Init, Billiards!Init
<1>2. \A n \in Balls : <<n, 1>> \in {n} \X (1 .. 3) /\ <<n, 1>> \in Billiards!Pivots
  BY Tree
<1>3. \A n \in Balls : \A p \in {n} \X (1 .. 3) :
        p \in Billiards!Pivots /\ (p[2] = 1 <=> p = <<n, 1>>)
  BY Tree
<1>4. CameraMovel \notin Billiards!Pivots
  BY Tree
<1> QED
  BY <1>1, <1>2, <1>3, <1>4 DEF TreeInv

\* Each ball is in the scene once, whatever the camera hangs on.
THEOREM BilliardsOneOfEachBall == Spec => []OneOfEachBall
<1>1. Init => HandInv
  BY DEF Init, Billiards!Init, HandInv
<1> QED
  BY <1>1, InitTree, NextKeepsHandInv, NextKeepsTree, TreeHasOneOfEach, PTL DEF Spec

-----------------------------------------------------------------------------
\* The mobile.
\* Every branch has its flag; two never turn at a time.
BranchInv == /\ rotating \in [Mobile!Branches -> BOOLEAN]
             /\ OneBranchTurns

LEMMA TurnKeepsBranchInv ==
  ASSUME BranchInv, NEW b \in Mobile!Branches, NEW sign \in {-1, 1}, Mobile!Turn(b, sign)
  PROVE  BranchInv'
<1> USE DEF BranchInv, OneBranchTurns, Mobile!OneBranchTurns
<1>1. \A c \in Mobile!Branches : c < b => ~rotating[c]
  BY DEF Mobile!Turn
<1>2. rotating' = [c \in Mobile!Branches |-> IF c = b THEN ~rotating[c]
                                                      ELSE c < b /\ rotating[c]]
  BY DEF Mobile!Turn
<1>3. rotating' \in [Mobile!Branches -> BOOLEAN]
  BY <1>2
<1>4. \A c \in Mobile!Branches : rotating'[c] => c = b
  BY <1>1, <1>2
<1> QED
  BY <1>3, <1>4

LEMMA NextKeepsBranchInv == BranchInv /\ [Next]_vars => BranchInv'
<1> SUFFICES ASSUME BranchInv, [Next]_vars PROVE BranchInv'
  OBVIOUS
<1>1. CASE OpenMobile
  <2>1. ASSUME NEW b \in Mobile!Branches, NEW sign \in {-1, 1}, Mobile!Turn(b, sign)
        PROVE  BranchInv'
    BY <2>1, TurnKeepsBranchInv
  <2>2. CASE UNCHANGED rotating
    BY <2>2 DEF BranchInv, OneBranchTurns, Mobile!OneBranchTurns
  <2> QED
    BY <1>1, <2>1, <2>2 DEF OpenMobile, Mobile!Next, Mobile!Press, Mobile!Release,
                            Mobile!SwapWireframe, Mobile!Look, Mobile!Animate
<1>2. CASE UNCHANGED rotating
  BY <1>2 DEF BranchInv, OneBranchTurns, Mobile!OneBranchTurns
<1> QED
  BY <1>1, <1>2 DEF Next, vars, mobile, OpenBilliards, OpenCar, OpenGolf

\* Never do two branches of the mobile turn at a time.
THEOREM MobileBranches == Spec => []OneBranchTurns
<1>1. Init => BranchInv
  BY DEF Init, Mobile!Init, BranchInv, OneBranchTurns, Mobile!OneBranchTurns
<1>2. BranchInv => OneBranchTurns
  BY DEF BranchInv
<1> QED
  BY <1>1, <1>2, NextKeepsBranchInv, PTL DEF Spec

-----------------------------------------------------------------------------
\* The car.

\* larg is the height the side camera was made for; comp is its width, or, by
\* line 453, its height.  Who has not opened the page has not chosen a camera.
FrustumInv == /\ window \in Nat \X Nat /\ sideShape \in Nat \X Nat
              /\ larg = sideShape[2]
              /\ comp \in {sideShape[1], sideShape[2]}
              /\ open # "car" => activeCamera = "cameraPersp"

LEMMA ResizeKeepsFrustum ==
  ASSUME FrustumInv, Car!onResize, UNCHANGED open
  PROVE  FrustumInv'
<1> USE DEF FrustumInv
<1>1. window' \in Nat \X Nat
  BY PagesAssumption DEF Car!CarAssumption, Car!onResize
<1>2. UNCHANGED activeCamera
  BY DEF Car!onResize, Car!scenery
<1>3. CASE UNCHANGED Car!shapes
  BY <1>1, <1>2, <1>3 DEF Car!shapes
<1>4. CASE Car!FitPersp
  BY <1>1, <1>2, <1>4 DEF Car!FitPersp
<1>5. CASE Car!FitHeight
  BY <1>1, <1>2, <1>5 DEF Car!FitHeight
<1>6. CASE Car!FitWidth
  BY <1>1, <1>2, <1>6 DEF Car!FitWidth
<1> QED
  BY <1>3, <1>4, <1>5, <1>6 DEF Car!onResize, Car!FitNothing

LEMMA NextKeepsFrustum == FrustumInv /\ [Next]_vars => FrustumInv'
<1> SUFFICES ASSUME FrustumInv, [Next]_vars PROVE FrustumInv'
  OBVIOUS
<1>1. CASE OpenCar
  <2>1. CASE Car!onResize
    BY <1>1, <2>1, ResizeKeepsFrustum DEF OpenCar
  <2>2. CASE ~Car!onResize
    BY <1>1, <2>2 DEF OpenCar, FrustumInv, Car!Next, Car!turnOnOffLight, Car!changeCalcusMaterial,
                      Car!changeShading, Car!Look, Car!Press, Car!Release, Car!animate,
                      Car!shapes, Car!scenery
  <2> QED
    BY <2>1, <2>2
<1>2. CASE OpenGolf
  <2>1. window' \in Nat \X Nat
    BY <1>2, PagesAssumption DEF OpenGolf, FrustumInv, Golf!GolfAssumption, Golf!Next, Golf!onResize,
       Golf!turnOnOff, Golf!changeWireframe, Golf!changeCalcusMaterial, Golf!KeyBall, Golf!KeyPause,
       Golf!KeyReset, Golf!Orbit, Golf!animate, Golf!shapes
  <2> QED
    BY <1>2, <2>1 DEF OpenGolf, FrustumInv, car
<1>3. CASE UNCHANGED <<open, car, window>>
  BY <1>3 DEF FrustumInv, car
<1> QED
  BY <1>1, <1>2, <1>3 DEF Next, vars, OpenMobile, OpenBilliards

\* What a resize the side camera sees leaves behind.
LEMMA NextFits ==
  ASSUME FrustumInv, [Next]_vars,
         window' # window, activeCamera = "cameraSide", window'[1] > 0, window'[2] > 0
  PROVE  Car!Undistorted(sideShape', window') \/ window'[1] = window'[2]
<1>1. OpenCar
  BY DEF FrustumInv, Next, vars, OpenMobile, OpenBilliards, OpenGolf
<1>2. Car!onResize
  BY <1>1 DEF OpenCar, Car!Next, Car!turnOnOffLight, Car!changeCalcusMaterial,
              Car!changeShading, Car!Look, Car!Press, Car!Release, Car!animate
<1>3. window' \in Nat \X Nat
  BY <1>2, PagesAssumption DEF Car!CarAssumption, Car!onResize
<1>4. CASE Car!FitHeight \/ Car!FitWidth
  BY <1>3, <1>4 DEF Car!FitHeight, Car!FitWidth, Car!Undistorted
<1>5. CASE Car!FitNothing
  <2>1. window'[2] = sideShape[2] /\ window'[1] \in {sideShape[1], sideShape[2]} /\ sideShape' = sideShape
    BY <1>5 DEF Car!FitNothing, Car!shapes, FrustumInv
  <2>2. sideShape[1] \in Nat /\ sideShape[2] \in Nat
    BY DEF FrustumInv
  <2> QED
    BY <2>1, <2>2 DEF Car!Undistorted
<1> QED
  BY <1>2, <1>4, <1>5 DEF Car!onResize, Car!FitPersp

\* The side camera shows every window it sees undistorted, or the window is a
\* square: line 453, which records the height as the width, does no more harm.
THEOREM CarSideFits == Spec => SideFits
<1>1. Init => FrustumInv
  BY PagesAssumption DEF Init, Car!Init, FrustumInv, Car!CarAssumption
<1>2. FrustumInv /\ [Next]_vars =>
        [window' # window /\ activeCamera = "cameraSide" /\ window'[1] > 0 /\ window'[2] > 0
         => Car!Undistorted(sideShape', window') \/ window'[1] = window'[2]]_(Car!vars)
  BY NextFits
<1> QED
  BY <1>1, <1>2, NextKeepsFrustum, PTL DEF Spec, SideFits, Car!SideFits

-----------------------------------------------------------------------------
\* The golf page.

\* The ball has bounced for as long as it has rolled; of the two materials each
\* has its wireframe.
PictureInv == /\ distance \in Nat /\ ballVelocity = distance
              /\ golfMaterial \in {0, 1}
              /\ golfWireframe \in [{0, 1} -> BOOLEAN]

LEMMA NextKeepsPicture == PictureInv /\ [Next]_vars => PictureInv'
<1> SUFFICES ASSUME PictureInv, [Next]_vars PROVE PictureInv'
  OBVIOUS
<1> USE DEF PictureInv
<1>1. CASE OpenGolf
  <2>1. CASE Golf!ResetFrame
    BY <2>1 DEF Golf!ResetFrame, Golf!Phong
  <2>2. CASE Golf!PlayFrame
    BY <2>2 DEF Golf!PlayFrame, Golf!moveBall, Golf!look
  <2>3. CASE Golf!changeWireframe
    BY <2>3 DEF Golf!changeWireframe, Golf!ball
  <2>4. CASE Golf!changeCalcusMaterial
    BY <2>4 DEF Golf!changeCalcusMaterial, Golf!ball
  <2>5. CASE UNCHANGED <<distance, ballVelocity, golfMaterial, golfWireframe>>
    BY <2>5
  <2> QED
    BY <1>1, <2>1, <2>2, <2>3, <2>4, <2>5 DEF OpenGolf, Golf!Next, Golf!animate, Golf!turnOnOff, Golf!KeyBall,
       Golf!KeyPause, Golf!KeyReset, Golf!Orbit, Golf!onResize, Golf!look, Golf!ball
<1>2. CASE UNCHANGED golf
  BY <1>2 DEF golf
<1> QED
  BY <1>1, <1>2 DEF Next, vars, OpenMobile, OpenBilliards, OpenCar

\* Each key and each frame of the page is one of the steps of the picture; a
\* resize is none of them.
LEMMA StepOfScene ==
  ASSUME PictureInv, Golf!Next
  PROVE  [Golf!Picture!Next]_(Golf!Picture!vars)
<1> USE DEF PictureInv, Golf!Picture!vars, Golf!Picture!world
<1>1. ASSUME NEW l \in Golf!Lights, Golf!turnOnOff(l) PROVE Golf!Picture!Next
  <2>1. l \in Golf!Picture!AllLights
    BY DEF Golf!Lights, Golf!Picture!AllLights
  <2>2. Golf!Picture!Switch(l)
    BY <1>1 DEF Golf!turnOnOff, Golf!Picture!Switch, Golf!ball, Golf!shapes
  <2> QED
    BY <2>1, <2>2 DEF Golf!Picture!Next
<1>2. CASE Golf!changeWireframe
  BY <1>2 DEF Golf!changeWireframe, Golf!Picture!Wire, Golf!Picture!Next, Golf!ball, Golf!shapes
<1>3. CASE Golf!changeCalcusMaterial
  <2>1. golfMaterial' = 1 - golfMaterial /\ golfWireframe'[golfMaterial'] = golfWireframe[golfMaterial]
    BY <1>3 DEF Golf!changeCalcusMaterial
  <2>2. (golfMaterial' = Golf!Phong) = ~(golfMaterial = Golf!Phong)
    BY <2>1 DEF Golf!Phong
  <2> QED
    BY <1>3, <2>1, <2>2 DEF Golf!changeCalcusMaterial, Golf!Picture!Shade, Golf!Picture!Next,
                            Golf!ball, Golf!shapes
<1>4. CASE Golf!KeyBall
  BY <1>4 DEF Golf!KeyBall, Golf!Picture!Roll, Golf!Picture!Next, Golf!look, Golf!shapes
<1>5. CASE Golf!KeyPause
  BY <1>5 DEF Golf!KeyPause, Golf!Picture!Pause, Golf!Picture!Next, Golf!look, Golf!ball, Golf!shapes
<1>6. CASE Golf!Orbit
  BY <1>6 DEF Golf!Orbit, Golf!Picture!Orbit, Golf!Picture!Next, Golf!look, Golf!ball, Golf!shapes
<1>7. CASE Golf!KeyReset \/ Golf!onResize
  BY <1>7 DEF Golf!KeyReset, Golf!onResize, Golf!look, Golf!ball
<1>8. CASE Golf!ResetFrame
  BY <1>8 DEF Golf!ResetFrame, Golf!moveFlag, Golf!Phong, Golf!Lights, Golf!Picture!AllLights,
              Golf!Picture!AtStart, Golf!Picture!Restart, Golf!Picture!Next
<1>9. CASE Golf!PlayFrame
  BY <1>9 DEF Golf!PlayFrame, Golf!moveFlag, Golf!moveBall, Golf!look, Golf!Picture!Frame, Golf!Picture!Next
<1> QED
  BY <1>1, <1>2, <1>3, <1>4, <1>5, <1>6, <1>7, <1>8, <1>9 DEF Golf!Next, Golf!animate

\* What the other pages do leaves the picture alone.
LEMMA PageKeepsScene ==
  ASSUME PictureInv, [Next]_vars
  PROVE  [Golf!Picture!Next]_(Golf!Picture!vars)
<1>1. CASE OpenGolf
  BY <1>1, StepOfScene DEF OpenGolf
<1>2. CASE UNCHANGED golf
  BY <1>2 DEF golf, Golf!Picture!vars, Golf!Picture!world
<1> QED
  BY <1>1, <1>2 DEF Next, vars, OpenMobile, OpenBilliards, OpenCar

\* The refinement: i changes how light is calculated and nothing else, w the
\* wireframe and nothing else, the pause stops all but the mouse, and a reset
\* leaves no trace, although the materials not in use keep what they had.
THEOREM GolfKeepsScene == Spec => KeepsScene
<1>1. Init => PictureInv
  BY DEF Init, Golf!Init, PictureInv, Golf!Phong, Golf!Basic
<1>2. Init => Golf!Picture!Init
  BY DEF Init, Golf!Init, Golf!Phong, Golf!Basic, Golf!Lights, Golf!Picture!Init, Golf!Picture!AtStart,
         Golf!Picture!AllLights
<1> QED
  BY <1>1, <1>2, NextKeepsPicture, PageKeepsScene, PTL DEF Spec, KeepsScene, Golf!KeepsScene

-----------------------------------------------------------------------------
\* The types of the pages.
LEMMA MobileTypes == Mobile!TypeOK /\ [Next]_vars => Mobile!TypeOK'
<1> SUFFICES ASSUME Mobile!TypeOK, [Next]_vars PROVE Mobile!TypeOK'
  OBVIOUS
<1> USE DEF Mobile!TypeOK
<1>1. CASE OpenMobile
  <2>1. CASE Mobile!Animate
    BY <2>1 DEF Mobile!Animate
  <2>2. ASSUME NEW b \in Mobile!Branches, NEW sign \in {-1, 1}, Mobile!Turn(b, sign)
        PROVE  Mobile!TypeOK'
    <3>1. rotating' \in [Mobile!Branches -> BOOLEAN]
      BY <2>2 DEF Mobile!Turn
    <3> QED
      BY <2>2, <3>1 DEF Mobile!Turn
  <2>3. CASE Mobile!SwapWireframe
    <3>1. wireframe' = [m \in {"rods", "figure"} |-> (Mobile!Meshes[m] % 2 = 1) # wireframe[m]]
      BY <2>3 DEF Mobile!SwapWireframe
    <3>2. wireframe' \in [{"rods", "figure"} -> BOOLEAN]
      BY <3>1, Zenon
    <3> QED
      BY <2>3, <3>2 DEF Mobile!SwapWireframe
  <2>4. ASSUME NEW k \in Mobile!Arrows, Mobile!Press(k) \/ Mobile!Release(k) PROVE Mobile!TypeOK'
    BY <2>4 DEF Mobile!Press, Mobile!Release
  <2>5. ASSUME NEW c \in Mobile!Cameras, Mobile!Look(c) PROVE Mobile!TypeOK'
    BY <2>5 DEF Mobile!Look
  <2> QED
    BY <1>1, <2>1, <2>2, <2>3, <2>4, <2>5 DEF OpenMobile, Mobile!Next
<1>2. CASE UNCHANGED mobile
  BY <1>2 DEF mobile
<1> QED
  BY <1>1, <1>2 DEF Next, vars, OpenBilliards, OpenCar, OpenGolf

LEMMA CarTypes == Car!TypeOK /\ [Next]_vars => Car!TypeOK'
<1> SUFFICES ASSUME Car!TypeOK, [Next]_vars PROVE Car!TypeOK'
  OBVIOUS
<1> USE PagesAssumption DEF Car!TypeOK, Car!CarAssumption
<1>1. CASE OpenCar
  <2>1. CASE Car!onResize
    <3>1. window' \in Windows /\ window'[1] \in Nat /\ window'[2] \in Nat
      BY <2>1 DEF Car!onResize
    <3>2. {sideShape', perspShape'} \subseteq Windows /\ comp' \in Nat /\ larg' \in Nat
      BY <2>1, <3>1 DEF Car!onResize, Car!shapes, Car!FitPersp, Car!FitHeight, Car!FitWidth,
                        Car!FitNothing
    <3> QED
      BY <2>1, <3>1, <3>2 DEF Car!onResize, Car!scenery
  <2>2. CASE Car!animate
    BY <2>2 DEF Car!animate, Car!shapes
  <2>3. CASE ~Car!onResize /\ ~Car!animate
    BY <1>1, <2>3 DEF OpenCar, Car!Next, Car!turnOnOffLight, Car!changeCalcusMaterial, Car!Lights,
       Car!changeShading, Car!Look, Car!Press, Car!Release, Car!shapes, Car!scenery
  <2> QED
    BY <2>1, <2>2, <2>3
<1>2. CASE OpenGolf
  <2>1. window' \in Windows
    BY <1>2 DEF OpenGolf, Golf!Next, Golf!onResize, Golf!turnOnOff, Golf!changeWireframe,
       Golf!changeCalcusMaterial, Golf!KeyBall, Golf!KeyPause, Golf!KeyReset, Golf!Orbit,
       Golf!animate, Golf!shapes
  <2> QED
    BY <1>2, <2>1 DEF OpenGolf, car
<1>3. CASE UNCHANGED <<car, window>>
  BY <1>3 DEF car
<1> QED
  BY <1>1, <1>2, <1>3 DEF Next, vars, OpenMobile, OpenBilliards

LEMMA GolfTypes == Golf!TypeOK /\ [Next]_vars => Golf!TypeOK'
<1> SUFFICES ASSUME Golf!TypeOK, [Next]_vars PROVE Golf!TypeOK'
  OBVIOUS
<1> USE PagesAssumption DEF Golf!TypeOK, Golf!GolfAssumption, Golf!Basic, Golf!Phong
<1>1. CASE OpenGolf
  <2>1. Golf!moveFlag => flag_pivot' \in 0 .. FullTurn - 1
    BY DEF Golf!moveFlag
  <2>2. CASE Golf!ResetFrame /\ UNCHANGED Golf!shapes
    BY <2>1, <2>2 DEF Golf!ResetFrame, Golf!shapes
  <2>3. CASE Golf!PlayFrame /\ UNCHANGED Golf!shapes
    BY <2>1, <2>3 DEF Golf!PlayFrame, Golf!moveBall, Golf!look, Golf!shapes
  <2>4. CASE Golf!onResize
    BY <2>4 DEF Golf!onResize, Golf!look, Golf!ball
  <2>5. CASE Golf!changeWireframe \/ Golf!changeCalcusMaterial
    <3>1. golfMaterial' \in {0, 1} /\ golfWireframe' \in [{0, 1} -> BOOLEAN]
      <4>1. CASE Golf!changeWireframe
        BY <4>1 DEF Golf!changeWireframe
      <4>2. CASE Golf!changeCalcusMaterial
        <5>1. 1 - golfMaterial \in {0, 1}
          OBVIOUS
        <5>2. golfWireframe' = [golfWireframe EXCEPT ![1 - golfMaterial] = golfWireframe[golfMaterial]]
          BY <4>2, <5>1 DEF Golf!changeCalcusMaterial
        <5> QED
          BY <4>2, <5>1, <5>2 DEF Golf!changeCalcusMaterial
      <4> QED
        BY <2>5, <4>1, <4>2
    <3> QED
      BY <2>5, <3>1 DEF Golf!changeWireframe, Golf!changeCalcusMaterial, Golf!ball, Golf!shapes
  <2>6. ASSUME NEW l \in Golf!Lights, Golf!turnOnOff(l) PROVE Golf!TypeOK'
    BY <2>6 DEF Golf!turnOnOff, Golf!ball, Golf!shapes
  <2>7. CASE Golf!KeyBall \/ Golf!KeyPause \/ Golf!KeyReset \/ Golf!Orbit
    BY <2>7 DEF Golf!KeyBall, Golf!KeyPause, Golf!KeyReset, Golf!Orbit, Golf!look, Golf!ball,
                Golf!shapes
  <2> QED
    BY <1>1, <2>2, <2>3, <2>4, <2>5, <2>6, <2>7 DEF OpenGolf, Golf!Next, Golf!animate
<1>2. CASE OpenCar
  <2>1. window' \in Windows
    BY <1>2 DEF OpenCar, Car!Next, Car!onResize, Car!turnOnOffLight, Car!changeCalcusMaterial,
       Car!changeShading, Car!Look, Car!Press, Car!Release, Car!animate
  <2> QED
    BY <1>2, <2>1 DEF OpenCar, golf
<1>3. CASE UNCHANGED <<golf, window>>
  BY <1>3 DEF golf
<1> QED
  BY <1>1, <1>2, <1>3 DEF Next, vars, OpenMobile, OpenBilliards

\* The limit is passed by one step at most: a cue is turned while it is within
\* it, by one step to the right and then by one to the left.
LEMMA TurnedWithin ==
  ASSUME tacoAng \in [Tacos -> -AngleLimit - 1 .. AngleLimit + 1], Billiards!Chosen \in Tacos
  PROVE  Billiards!Turned \in -AngleLimit - 1 .. AngleLimit + 1
<1>1. AngleLimit \in Nat
  BY PagesAssumption DEF Billiards!BilliardsAssumption
<1> DEFINE a == tacoAng[Billiards!Chosen]
           r == Billiards!Right(a)
<1>2. a \in Int /\ -AngleLimit - 1 <= a /\ a <= AngleLimit + 1
  BY <1>1
<1>3. r \in Int /\ -AngleLimit - 1 <= r /\ r <= AngleLimit + 1
  BY <1>1, <1>2 DEF Billiards!Right, Billiards!TurnsRight
<1> HIDE DEF a, r
<1>4. /\ Billiards!Left(r) \in Int
      /\ -AngleLimit - 1 <= Billiards!Left(r) /\ Billiards!Left(r) <= AngleLimit + 1
  BY <1>1, <1>3 DEF Billiards!Left, Billiards!TurnsLeft
<1>5. Billiards!Turned = Billiards!Left(r)
  BY DEF Billiards!Turned, a, r
<1> QED
  BY <1>1, <1>4, <1>5

\* What the lemmas above leave open of the types of the table.
TableTypes == /\ changeColor \in BOOLEAN /\ tacada \in BOOLEAN
              /\ tacoHeld \subseteq {"left", "right"}
              /\ tacoAng \in [Tacos -> -AngleLimit - 1 .. AngleLimit + 1]
              /\ following \in BOOLEAN
              /\ pending \in 0 .. MaxPending
              /\ frozen \in BOOLEAN

LEMMA FrameKeepsTypes ==
  ASSUME TableTypes, CueInv, Billiards!animate
  PROVE  TableTypes'
<1> USE PagesAssumption DEF TableTypes, Billiards!BilliardsAssumption
<1>1. 0 \in -AngleLimit - 1 .. AngleLimit + 1
  OBVIOUS
<1>2. Billiards!Straighten => tacoAng' \in [Tacos -> -AngleLimit - 1 .. AngleLimit + 1]
  BY <1>1 DEF Billiards!Straighten
<1>3. CASE Billiards!Frame
  <2>1. Billiards!Chosen # 0 => Billiards!Chosen \in Tacos
    BY DEF CueInv, Billiards!Chosen
  <2>2. tacoAng' \in [Tacos -> -AngleLimit - 1 .. AngleLimit + 1]
    <3>1. CASE Billiards!Turns
      <4>1. Billiards!Turned \in -AngleLimit - 1 .. AngleLimit + 1
        BY <2>1, <3>1, TurnedWithin DEF Billiards!Turns
      <4>2. tacoAng' = [tacoAng EXCEPT ![Billiards!Chosen] = Billiards!Turned]
        BY <1>3, <3>1 DEF Billiards!Frame, Billiards!direcionaTaco
      <4> QED
        BY <4>1, <4>2
    <3>2. CASE ~Billiards!Turns
      BY <1>2, <1>3, <3>2 DEF Billiards!Frame, Billiards!direcionaTaco
    <3> QED
      BY <3>1, <3>2
  <2>3. pending' \in 0 .. MaxPending
    BY <1>3 DEF Billiards!Frame, Billiards!animate
  <2>4. changeColor' \in BOOLEAN /\ tacada' \in BOOLEAN
    BY <1>3 DEF Billiards!Frame
  <2>5. UNCHANGED <<tacoHeld, following, frozen>>
    BY <1>3 DEF Billiards!Frame, Billiards!animate, Billiards!view
  <2> QED
    BY <2>2, <2>3, <2>4, <2>5
<1>4. CASE Billiards!FrameThrows
  BY <1>2, <1>4 DEF Billiards!FrameThrows, Billiards!animate, Billiards!view, Billiards!cue
<1> QED
  BY <1>3, <1>4 DEF Billiards!animate

LEMMA NextKeepsTableTypes == TableTypes /\ CueInv /\ [Next]_vars => TableTypes'
<1> SUFFICES ASSUME TableTypes, CueInv, [Next]_vars PROVE TableTypes'
  OBVIOUS
<1> USE PagesAssumption DEF TableTypes, Billiards!BilliardsAssumption
<1>1. CASE OpenBilliards
  <2>1. ASSUME NEW n \in Tacos, Billiards!callTaco(n) PROVE TableTypes'
    BY <2>1 DEF Billiards!callTaco
  <2>2. CASE Billiards!update
    <3>1. pending' \in 0 .. MaxPending
      BY <2>2 DEF Billiards!update
    <3>2. UNCHANGED <<changeColor, tacoHeld, tacoAng, frozen>>
      BY <2>2 DEF Billiards!update, Billiards!cue
    <3>3. tacada' \in BOOLEAN /\ following' \in BOOLEAN
      BY <2>2 DEF Billiards!update
    <3> QED
      BY <3>1, <3>2, <3>3
  <2>3. ASSUME NEW k \in {"left", "right"}, Billiards!Press(k) \/ Billiards!Release(k)
        PROVE  TableTypes'
    BY <2>3 DEF Billiards!Press, Billiards!Release, Billiards!cue, Billiards!view
  <2>4. CASE Billiards!Space \/ Billiards!LookFromTable \/ Billiards!LookFromBall
    BY <2>4 DEF Billiards!Space, Billiards!LookFromTable, Billiards!LookFromBall, Billiards!cue,
                Billiards!view
  <2>5. CASE Billiards!Frozen
    BY <2>5 DEF Billiards!Frozen, Billiards!vars, Billiards!cue, Billiards!view
  <2> QED
    BY <1>1, <2>1, <2>2, <2>3, <2>4, <2>5, FrameKeepsTypes DEF OpenBilliards, Billiards!Next,
       Billiards!Key
<1>2. CASE UNCHANGED billiards
  BY <1>2 DEF billiards
<1> QED
  BY <1>1, <1>2 DEF Next, vars, OpenMobile, OpenCar, OpenGolf

LEMMA TableIsTyped ==
  ASSUME CueInv, HandInv, FallInv, AimInv, TreeInv, TableTypes
  PROVE  Billiards!TypeOK
<1>1. moving \subseteq Balls /\ sunk \subseteq Balls /\ falling \in Balls \cup {0}
  BY DEF FallInv, Waits, Billiards!Waits
<1>2. parent \in [Billiards!Pivots \cup {CameraMovel} -> Billiards!Pivots \cup {Scene, Nowhere}]
  BY DEF TreeInv
<1> QED
  BY <1>1, <1>2 DEF Billiards!TypeOK, CueInv, HandInv, FallInv, AimInv, TreeInv, TableTypes

PageTypes == /\ Mobile!TypeOK /\ Car!TypeOK /\ Golf!TypeOK
             /\ open \in {"mobile", "billiards", "car", "golf"}

\* Every variable of the four pages keeps its type, and no cue turns further
\* than one step beyond its limit.
THEOREM PagesTypes == Spec => []TypeOK
<1>1. Init => PageTypes
  <2> SUFFICES ASSUME Init PROVE PageTypes
    OBVIOUS
  <2>1. Mobile!TypeOK
    <3>1. wireframe \in [{"rods", "figure"} -> BOOLEAN]
      BY DEF Init, Mobile!Init
    <3> QED
      BY <3>1 DEF Init, Mobile!Init, Mobile!TypeOK, Mobile!Cameras
  <2>2. Car!TypeOK
    BY PagesAssumption DEF Init, Car!Init, Car!TypeOK, Car!CarAssumption, Car!Lights, Car!Basic
  <2>3. Golf!TypeOK
    <3>1. /\ FirstWindow \in Windows /\ 0 \in 0 .. FullTurn - 1
      BY PagesAssumption DEF Golf!GolfAssumption
    <3>2. golfWireframe \in [{0, 1} -> BOOLEAN]
      BY DEF Init, Golf!Init, Golf!Basic, Golf!Phong
    <3> QED
      BY <3>1, <3>2 DEF Init, Golf!Init, Golf!TypeOK, Golf!Basic, Golf!Phong
  <2> QED
    BY <2>1, <2>2, <2>3 DEF Init, PageTypes
<1>2. Init => TableTypes
  <2> SUFFICES ASSUME Init PROVE TableTypes
    OBVIOUS
  <2>1. AngleLimit \in Nat /\ MaxPending \in Nat
    BY PagesAssumption DEF Billiards!BilliardsAssumption
  <2>2. tacoAng \in [Tacos -> -AngleLimit - 1 .. AngleLimit + 1]
    BY <2>1 DEF Init, Billiards!Init
  <2>3. /\ changeColor \in BOOLEAN /\ tacada \in BOOLEAN /\ following \in BOOLEAN
        /\ frozen \in BOOLEAN
    BY DEF Init, Billiards!Init
  <2>4. tacoHeld = {} /\ pending \in 0 .. MaxPending
    BY <2>1 DEF Init, Billiards!Init
  <2> QED
    BY <2>2, <2>3, <2>4 DEF TableTypes
<1>3. Init => FallInv /\ HandInv /\ AimInv
  BY NoZero DEF Init, Billiards!Init, FallInv, HandInv, Waits, Billiards!Waits, AimInv, AimTogether,
                Billiards!AimTogether
<1>4. PageTypes /\ [Next]_vars => PageTypes'
  BY MobileTypes, CarTypes, GolfTypes DEF PageTypes, Next, vars, OpenMobile, OpenBilliards, OpenCar,
     OpenGolf
<1>5. PageTypes /\ CueInv /\ HandInv /\ FallInv /\ AimInv /\ TreeInv /\ TableTypes => TypeOK
  BY TableIsTyped DEF PageTypes, TypeOK
<1> QED
  BY <1>1, <1>2, <1>3, <1>4, <1>5, InitCueInv, InitTree, NextKeepsCueInv, NextKeepsHandInv,
     NextKeepsFallInv, NextKeepsAimInv, NextKeepsTree, NextKeepsTableTypes, PTL DEF Spec
=============================================================================
