----------------------------- MODULE Billiards -----------------------------
(***************************************************************************)
(* The second scene of Computer Graphics (second_delivery/                 *)
(* projeto2_Grupo15.js): a billiard table with a cue (taco) for each of    *)
(* the first balls.  A digit selects a cue or gives it back, the arrows  *)
(* turn it together with its ball, space shoots.  Keys set flags; the next *)
(* animation frame acts on them; a second after each frame one update      *)
(* moves the balls.  Handlers, frames and updates run one at a time.       *)
(*                                                                         *)
(* Where balls are and how fast is left out: what an update finds (balls   *)
(* that stop, are hit or lie in a hole) is any of what it could find.      *)
(* tacoGroup[0], ballGroup[0] and pivotBall[0] do not exist: reading them  *)
(* throws, and a frame that throws asks for no other.                      *)
(***************************************************************************)
EXTENDS Integers, FiniteSets, SceneGraph

CONSTANTS Tacos,       \* the numbers of the cues and of their balls
          Balls,       \* the numbers of all balls
          AngleLimit,  \* the steps of pi/1000 within the limit of pi/3
          MaxPending,  \* bound: the updates that wait for their timer
          Scene, CameraMovel   \* the scene and the moving camera in the tree

\* An object that nothing refers to any more may serve as a new one, so a ball
\* needs pivots for itself, the moving camera, and a ball left in the scene.
Pivots == Balls \X (1 .. 3)

BilliardsAssumption ==
  /\ Balls \subseteq Nat \ {0} /\ Tacos \subseteq Balls /\ IsFiniteSet(Balls)
  /\ AngleLimit \in Nat /\ MaxPending \in Nat
  /\ Scene # CameraMovel /\ Scene # Nowhere /\ CameraMovel # Nowhere
  /\ Pivots \cap {Scene, CameraMovel, Nowhere} = {}

VARIABLES selectedTaco, selectedBall,   \* 0 for none
          changeColor, tacada,          \* what the next frame has to do
          held,                         \* the arrows whose flag is true
          red,                          \* the cues with userData.selected
          tacoAng,                      \* tacoAng[t]: the angle of cue t
          ballAng,                      \* ballAng[n]: how far the arrows turned ball n;
                                        \* once it rolls this is no longer followed
          moving, playable,             \* the balls with these flags
          falling,                      \* ballInfinite while infinite is set, else 0
          sunk,                         \* the balls below the table
          pivotBall, parent,            \* the scene: the pivot of each ball, the tree
          following,                    \* cameraAtiva is cameraPerspetivaMovel
          pending,                      \* the updates still to run
          frozen                        \* a frame has thrown

cue  == <<selectedTaco, selectedBall, changeColor, red, tacoAng>>
ball == <<ballAng, moving, playable, falling, sunk, pivotBall>>
view == <<parent, following>>
vars == <<cue, tacada, held, ball, view, pending, frozen>>

Init == /\ selectedTaco = 0 /\ selectedBall = 0
        /\ changeColor = FALSE /\ tacada = FALSE
        /\ held = {} /\ red = {}
        /\ tacoAng = [t \in Tacos |-> 0] /\ ballAng = [n \in Balls |-> 0]
        /\ moving = Balls \ Tacos /\ playable = Balls \ Tacos
        /\ falling = 0 /\ sunk = {}
        /\ pivotBall = [n \in Balls |-> <<n, 1>>]
        /\ parent = [o \in Pivots \cup {CameraMovel} |->
                       IF o \in Pivots /\ o[2] = 1 THEN Scene ELSE Nowhere]
        /\ following = FALSE
        /\ pending = 0 /\ frozen = FALSE

-----------------------------------------------------------------------------
\* Keys.
Press(k)   == held' = held \cup {k} /\ UNCHANGED <<cue, tacada, ball, view, pending, frozen>>
Release(k) == held' = held \ {k} /\ UNCHANGED <<cue, tacada, ball, view, pending, frozen>>

Space == tacada' = TRUE /\ UNCHANGED <<cue, held, ball, view, pending, frozen>>

LookFromTable == /\ following' = FALSE
                 /\ UNCHANGED <<cue, tacada, held, ball, parent, pending, frozen>>

LookFromBall ==
  /\ IF selectedBall # 0
     THEN /\ parent' = add(parent, pivotBall[selectedBall], CameraMovel)
          /\ following' = TRUE
     ELSE following' = FALSE /\ UNCHANGED parent
  /\ UNCHANGED <<cue, tacada, held, ball, pending, frozen>>

\* A pivot that is not in the scene and does not carry the camera.
Unused(tree, p) == tree[p] = Nowhere /\ tree[CameraMovel] # p

\* Fault: the old ball stays in the scene.
checkBallPlaceTwice(n) ==
  LET new == CHOOSE p \in {n} \X (1 .. 3) : Unused(parent, p)
  IN /\ pivotBall' = [pivotBall EXCEPT ![n] = new]
     /\ parent' = add(parent, Scene, new)
     /\ falling' = 0
     /\ moving' = moving \ {n} /\ playable' = playable \ {n}
     /\ sunk' = sunk \ {n}
     /\ ballAng' = [ballAng EXCEPT ![n] = 0]

\* Fault: what falls goes on falling.
checkBallPlaceFalling(n) ==
  LET without == remove(parent, Scene, pivotBall[n])
      new     == CHOOSE p \in {n} \X (1 .. 3) : Unused(without, p)
  IN /\ pivotBall' = [pivotBall EXCEPT ![n] = new]
     /\ parent' = add(without, Scene, new)
     /\ moving' = moving \ {n} /\ playable' = playable \ {n}
     /\ sunk' = sunk \ {n}
     /\ ballAng' = [ballAng EXCEPT ![n] = 0]
     /\ UNCHANGED falling

\* checkBallPlace with createBall: a new ball takes the place of the old one,
\* which is where its cue points when it is straight.  Whatever falls stops.
checkBallPlace(n) ==
  LET without == remove(parent, Scene, pivotBall[n])
      new     == CHOOSE p \in {n} \X (1 .. 3) : Unused(without, p)
  IN /\ pivotBall' = [pivotBall EXCEPT ![n] = new]
     /\ parent' = add(without, Scene, new)
     /\ falling' = 0
     /\ moving' = moving \ {n} /\ playable' = playable \ {n}
     /\ sunk' = sunk \ {n}
     /\ ballAng' = [ballAng EXCEPT ![n] = 0]

\* Fault: the ball is put back only if it was shot (== where the code has =).
SelectIfShot(n) == /\ selectedTaco = 0
                   /\ selectedTaco' = n /\ selectedBall' = n
                   /\ IF n \in playable THEN checkBallPlace(n) ELSE UNCHANGED <<ball, parent>>

\* The test of deuTacada assigns it (line 372): the ball is put back whenever
\* its cue is selected.
Select(n) == /\ selectedTaco = 0
             /\ selectedTaco' = n /\ selectedBall' = n
             /\ checkBallPlace(n)

\* Fault: the key of another cue gives the selected one back as well.
GiveBackAny(n) == /\ selectedTaco # 0
                  /\ selectedTaco' = n /\ selectedBall' = 0
                  /\ UNCHANGED <<ball, parent>>

GiveBack(n) == /\ selectedTaco = n
               /\ selectedBall' = 0
               /\ UNCHANGED <<selectedTaco, ball, parent>>

callTaco(n) == /\ Select(n) \/ GiveBack(n)
               /\ changeColor' = TRUE
               /\ UNCHANGED <<red, tacoAng, tacada, held, following, pending, frozen>>

-----------------------------------------------------------------------------
\* A frame: mudaCorTaco, direcionaTaco, doInfinite, daTacada, setTimeout.

\* mudaCorTaco: a cue turns red, or plain again, straight and free.
Freed    == changeColor /\ selectedTaco \in red
Coloured == IF Freed THEN red \ {selectedTaco}
            ELSE IF changeColor THEN red \cup {selectedTaco} ELSE red
Chosen   == IF Freed THEN 0 ELSE selectedTaco

\* Fault: nothing stops a cue that turns right.
TurnsRightOn(a) == "right" \in held

\* direcionaTaco: both arrows may be held, right comes first.
TurnsRight(a) == "right" \in held /\ a <= AngleLimit
TurnsLeft(a)  == "left" \in held /\ a >= -AngleLimit
Right(a) == IF TurnsRight(a) THEN a + 1 ELSE a
Left(a)  == IF TurnsLeft(a) THEN a - 1 ELSE a
Turns    == Chosen # 0 /\ (TurnsRight(tacoAng[Chosen]) \/ TurnsLeft(tacoAng[Chosen]))
Turned   == Left(Right(tacoAng[Chosen]))

\* The three places where a frame can throw, in their order.
NoCue       == changeColor /\ selectedTaco = 0
NoBallTurns == ~NoCue /\ Turns /\ selectedBall = 0
NoBallShot  == ~NoCue /\ ~NoBallTurns /\ tacada /\ selectedBall = 0

Straighten == IF Freed THEN tacoAng' = [tacoAng EXCEPT ![selectedTaco] = 0]
                       ELSE UNCHANGED tacoAng

\* rotation.y of pivots 3, 4 and 5 is lowered where the angle of their cues is
\* raised: they stand more than a quarter turned, where that turns them alike.
direcionaTaco ==
  IF Turns THEN /\ tacoAng' = [tacoAng EXCEPT ![Chosen] = Turned]
                /\ ballAng' = [ballAng EXCEPT ![selectedBall] =
                                  IF tacada THEN 0 ELSE @ + Turned - tacoAng[Chosen]]
           ELSE /\ Straighten
                /\ ballAng' = [n \in Balls |-> IF tacada /\ n = selectedBall THEN 0 ELSE ballAng[n]]

doInfinite == sunk' = IF falling # 0 THEN sunk \cup {falling} ELSE sunk

\* Fault: the ball rolls, but is not yet one that others may hit.
daTacadaUnplayable == IF tacada THEN /\ moving' = moving \cup {selectedBall}
                                     /\ UNCHANGED playable
                                ELSE UNCHANGED <<moving, playable>>

daTacada == IF tacada THEN /\ moving' = moving \cup {selectedBall}
                           /\ playable' = playable \cup {selectedBall}
                      ELSE UNCHANGED <<moving, playable>>

Frame == /\ ~NoCue /\ ~NoBallTurns /\ ~NoBallShot
         /\ red' = Coloured /\ selectedTaco' = Chosen
         /\ direcionaTaco
         /\ doInfinite
         /\ daTacada
         /\ tacada' = FALSE
         /\ changeColor' = tacada
         /\ pending' = pending + 1
         /\ UNCHANGED <<selectedBall, falling, pivotBall, frozen>>

\* What a frame that throws has done before it throws.
FrameThrows ==
  /\ NoCue \/ NoBallTurns \/ NoBallShot
  /\ frozen' = TRUE
  /\ IF NoCue THEN UNCHANGED cue
     ELSE /\ red' = Coloured /\ selectedTaco' = Chosen /\ changeColor' = FALSE
          /\ Straighten
          /\ UNCHANGED selectedBall
  /\ IF NoBallShot THEN doInfinite ELSE UNCHANGED sunk
  /\ UNCHANGED <<tacada, ballAng, moving, playable, falling, pivotBall, pending>>

animate == /\ pending < MaxPending
           /\ Frame \/ FrameThrows
           /\ UNCHANGED <<held, view>>

-----------------------------------------------------------------------------
\* An update goes through the balls in the order of their numbers.  A ball that
\* stops does so in its own turn; it may move again when one with a higher
\* number hits it.  Only a playable ball is moved by a hit, and only such a one
\* has left its place and can lie in a hole; of several the last one falls.
update ==
  /\ pending > 0
  /\ pending' = pending - 1
  /\ \E stopped \in SUBSET moving, hit, holes \in SUBSET playable :
       /\ hit # {} => \E i \in moving \ stopped : hit \ {i} # {}
       /\ moving' = (moving \ stopped) \cup hit
       /\ IF selectedBall \in stopped
          THEN /\ tacada' = FALSE
               /\ following' = FALSE
          ELSE UNCHANGED <<tacada, following>>
       /\ IF holes # {} THEN falling' \in {n \in holes : \A o \in holes : o <= n}
                        ELSE UNCHANGED falling
  /\ UNCHANGED <<cue, held, ballAng, playable, sunk, pivotBall, parent, frozen>>

Key == \/ \E k \in {"left", "right"} : Press(k) \/ Release(k)
       \/ \E n \in Tacos : callTaco(n)
       \/ Space
       \/ LookFromTable \/ LookFromBall

\* A page that is frozen draws nothing any more: the model ends there.
Frozen == frozen /\ UNCHANGED vars

Next == (~frozen /\ (Key \/ animate \/ update)) \/ Frozen

Spec == Init /\ [][Next]_vars

-----------------------------------------------------------------------------
TypeOK == /\ selectedTaco \in Tacos \cup {0} /\ selectedBall \in Tacos \cup {0}
          /\ changeColor \in BOOLEAN /\ tacada \in BOOLEAN
          /\ held \subseteq {"left", "right"}
          /\ red \subseteq Tacos
          /\ tacoAng \in [Tacos -> -AngleLimit - 1 .. AngleLimit + 1]
          /\ ballAng \in [Balls -> Int]
          /\ moving \subseteq Balls /\ playable \subseteq Balls /\ sunk \subseteq Balls
          /\ falling \in Balls \cup {0}
          /\ pivotBall \in [Balls -> Pivots]
          /\ parent \in [Pivots \cup {CameraMovel} -> Pivots \cup {Scene, Nowhere}]
          /\ following \in BOOLEAN
          /\ pending \in 0 .. MaxPending
          /\ frozen \in BOOLEAN

\* The red cue is the selected one, and one that is selected and not red turns
\* red in the next frame, although selection and colour change at different
\* times and a shot in between takes the selection back.
SelectedIsRed == /\ red \subseteq {selectedTaco}
                 /\ selectedTaco # 0 /\ selectedTaco \notin red => changeColor

\* Until it is shot a ball points where its cue points: a cue that is given
\* back goes straight and its ball does not, but it is put back before the
\* cue is used again.
AimTogether == selectedTaco # 0 /\ selectedBall = selectedTaco /\ selectedBall \notin playable
               => ballAng[selectedBall] = tacoAng[selectedTaco]

\* A ball that waits for its cue neither rolls nor falls, whatever the balls
\* around it do and although the one it replaced may have been falling.
Waits == moving \subseteq playable /\ sunk \subseteq playable

\* Each ball is in the scene once, also when a new one takes its place while
\* the camera hangs on the old one.
OneOfEachBall == Children(parent, Scene) = {pivotBall[n] : n \in Balls}
=============================================================================
