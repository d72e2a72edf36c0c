------------------------------- MODULE Mobile -------------------------------
(***************************************************************************)
(* The first scene of Computer Graphics (first_delivery/projeto1_G15.js):  *)
(* a mobile of three branches that hang one on the other.  Keys turn a     *)
(* branch one way or the other, the arrows push the mobile, 4 swaps solid  *)
(* and wireframe, other digits choose a camera.  The browser runs one      *)
(* handler or one animation frame at a time.                               *)
(*                                                                         *)
(* Positions and angles are left out: nothing reads them.  Speeds are      *)
(* whole multiples of a unit small enough for Deltas, Kick and Limit, and  *)
(* the rounding of their sums is left out.                                 *)
(***************************************************************************)
EXTENDS Integers

CONSTANTS Deltas,    \* what clock.getDelta() may answer
          Kick,      \* 30 * 0.005, the part of a push that velocity gives
          Limit,     \* the aceleration 1 of a held arrow
          MaxSpeed   \* bound: the model stops where mobileD passes it

MobileAssumption == /\ Deltas \subseteq Nat
                    /\ Kick \in Nat /\ Limit \in Nat /\ MaxSpeed \in Nat

Arrows   == {"left", "right", "forward", "backward"}
Branches == 1 .. 3
Cameras  == {"camera", "cameraTopo", "cameraLateral", "cameraPerspetiva"}

VARIABLES rotating,    \* rotating[b]: ramo_b.userData.rotating
          velocity,    \* the sign of velocity
          held,        \* the arrows whose flag is true
          mobileD,
          wireframe,   \* of the material the rods share, of a figure's own
          cameraAtiva

vars == <<rotating, velocity, held, mobileD, wireframe, cameraAtiva>>

Init == /\ rotating = [b \in Branches |-> FALSE]
        /\ velocity = 1
        /\ held = {}
        /\ mobileD = 0
        /\ wireframe = [m \in {"rods", "figure"} |-> m = "rods"]
        /\ cameraAtiva = "camera"

-----------------------------------------------------------------------------
Press(k)   == /\ held' = held \cup {k}
              /\ UNCHANGED <<rotating, velocity, mobileD, wireframe, cameraAtiva>>
Release(k) == /\ held' = held \ {k}
              /\ UNCHANGED <<rotating, velocity, mobileD, wireframe, cameraAtiva>>

\* Fault: a branch starts to turn and those below it go on.
TurnAlone(b, sign) ==
  /\ \A c \in Branches : c < b => ~rotating[c]
  /\ rotating' = [rotating EXCEPT ![b] = ~@]
  /\ velocity' = sign
  /\ UNCHANGED <<held, mobileD, wireframe, cameraAtiva>>

\* q and e, a and d, z and c: a branch turns only while those above it hang
\* still, and stops those below it.  The first key of a pair turns backwards.
Turn(b, sign) ==
  /\ \A c \in Branches : c < b => ~rotating[c]
  /\ rotating' = [c \in Branches |-> IF c = b THEN ~rotating[c]
                                              ELSE c < b /\ rotating[c]]
  /\ velocity' = sign
  /\ UNCHANGED <<held, mobileD, wireframe, cameraAtiva>>

\* The meshes that share a material: the rods of all branches share one, since
\* only createRamo1 assigns it; every figure has its own.
Meshes == [rods |-> 4 + 5 + 2, figure |-> 1]

\* 4: traverse visits every mesh and flips the flag of its material, so a
\* material is flipped once for each of its meshes.
SwapWireframe ==
  /\ wireframe' = [m \in DOMAIN wireframe |-> (Meshes[m] % 2 = 1) # wireframe[m]]
  /\ UNCHANGED <<rotating, velocity, held, mobileD, cameraAtiva>>

Look(c) == /\ cameraAtiva' = c
           /\ UNCHANGED <<rotating, velocity, held, mobileD, wireframe>>

-----------------------------------------------------------------------------
moveRight(d, aceleration, push) == IF d < aceleration THEN d + push ELSE aceleration
moveLeft(d, aceleration, push)  == IF d > -aceleration THEN d - push ELSE -aceleration

mobileMoveX(d, push) == IF "left" \in held THEN moveLeft(d, Limit, push)
                        ELSE IF "right" \in held THEN moveRight(d, Limit, push)
                        ELSE moveRight(d, 0, push)

mobileMoveZ(d, push) == IF "forward" \in held THEN moveLeft(d, Limit, push)
                        ELSE IF "backward" \in held THEN moveRight(d, Limit, push)
                        ELSE moveLeft(d, 0, push)

\* A frame moves the mobile along one axis, with the speed that the keys of this
\* axis make of mobileD, and then along the other, with what the keys of that
\* one make of it; mobileD is the speed after both.
Animate == \E delta \in Deltas :
             LET push == delta + Kick * velocity
             IN /\ mobileD' = mobileMoveZ(mobileMoveX(mobileD, push), push)
                /\ mobileD' \in -MaxSpeed .. MaxSpeed
                /\ UNCHANGED <<rotating, velocity, held, wireframe, cameraAtiva>>

Next == \/ \E k \in Arrows : Press(k) \/ Release(k)
        \/ \E b \in Branches, sign \in {-1, 1} : Turn(b, sign)
        \/ SwapWireframe
        \/ \E c \in Cameras : Look(c)
        \/ Animate

Spec == Init /\ [][Next]_vars

-----------------------------------------------------------------------------
TypeOK == /\ rotating \in [Branches -> BOOLEAN]
          /\ velocity \in {-1, 1}
          /\ held \subseteq Arrows
          /\ mobileD \in Int
          /\ wireframe \in [{"rods", "figure"} -> BOOLEAN]
          /\ cameraAtiva \in Cameras

\* Never do two branches turn at a time, whatever keys were pressed: all three
\* share one velocity, and a lower branch is carried by the one above it.
OneBranchTurns == \A b, c \in Branches : rotating[b] /\ rotating[c] => b = c
=============================================================================
