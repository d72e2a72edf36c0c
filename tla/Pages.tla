------------------------------- MODULE Pages -------------------------------
(***************************************************************************)
(* The four deliveries of Computer Graphics in a browser: one page is      *)
(* open, the others are as they were loaded.  The window is the browser's, *)
(* and its size is what the third and the fourth page adapt to.            *)
(***************************************************************************)
EXTENDS Integers

CONSTANTS Deltas, Kick, Limit, MaxSpeed,
          Tacos, Balls, AngleLimit, MaxPending, Scene, CameraMovel, Nowhere,
          Windows, FirstWindow, MaxTurn,
          FullTurn, MaxDistance

VARIABLES open,
          rotating, velocity, held, mobileD, wireframe, cameraAtiva,
          selectedTaco, selectedBall, changeColor, tacada, tacoHeld, red, tacoAng, ballAng,
          moving, playable, falling, sunk, pivotBall, parent, following, pending, frozen,
          window,
          carMaterial, carVisible, carHeld, base, activeCamera, comp, larg, sideShape, perspShape,
          pause_screen, reset, golfMaterial, golfWireframe, golfVisible, movingBall,
          ballVelocity, distance, flag_pivot, view, golfShape, pauseShape

Mobile    == INSTANCE Mobile
Billiards == INSTANCE Billiards WITH held <- tacoHeld
Car       == INSTANCE Car WITH material <- carMaterial, visible <- carVisible, held <- carHeld
Golf      == INSTANCE Golf WITH material <- golfMaterial, wireframe <- golfWireframe,
                                visible <- golfVisible, velocity <- ballVelocity,
                                perspShape <- golfShape

ASSUME PagesAssumption == /\ Mobile!MobileAssumption /\ Billiards!BilliardsAssumption
                          /\ Car!CarAssumption /\ Golf!GolfAssumption

mobile    == <<rotating, velocity, held, mobileD, wireframe, cameraAtiva>>
billiards == <<selectedTaco, selectedBall, changeColor, tacada, tacoHeld, red, tacoAng, ballAng,
               moving, playable, falling, sunk, pivotBall, parent, following, pending, frozen>>
car       == <<carMaterial, carVisible, carHeld, base, activeCamera, comp, larg, sideShape, perspShape>>
golf      == <<pause_screen, reset, golfMaterial, golfWireframe, golfVisible, movingBall,
               ballVelocity, distance, flag_pivot, view, golfShape, pauseShape>>
vars      == <<open, mobile, billiards, car, golf, window>>

Init == /\ open \in {"mobile", "billiards", "car", "golf"}
        /\ Mobile!Init /\ Billiards!Init /\ Car!Init /\ Golf!Init

OpenMobile == /\ open = "mobile" /\ Mobile!Next
              /\ UNCHANGED <<open, billiards, car, golf, window>>
OpenBilliards == /\ open = "billiards" /\ Billiards!Next
                 /\ UNCHANGED <<open, mobile, car, golf, window>>
OpenCar == /\ open = "car" /\ Car!Next
           /\ UNCHANGED <<open, mobile, billiards, golf>>
OpenGolf == /\ open = "golf" /\ Golf!Next
            /\ UNCHANGED <<open, mobile, billiards, car>>

Next == OpenMobile \/ OpenBilliards \/ OpenCar \/ OpenGolf

\* A frame of the golf page, the one page that has something to get done.
GolfFrame == /\ open = "golf" /\ Golf!animate
             /\ UNCHANGED <<open, mobile, billiards, car>>

\* The browser goes on asking the open page for frames.  Keys, the mouse and
\* the window are the user's, of whom nothing is assumed.
Spec == Init /\ [][Next]_vars /\ WF_vars(GolfFrame)

-----------------------------------------------------------------------------
TypeOK == /\ open \in {"mobile", "billiards", "car", "golf"}
          /\ Mobile!TypeOK /\ Billiards!TypeOK /\ Car!TypeOK /\ Golf!TypeOK

\* The properties of the pages, each stated where its page is.
OneBranchTurns    == Mobile!OneBranchTurns
SelectedIsRed     == Billiards!SelectedIsRed
AimTogether       == Billiards!AimTogether
Waits             == Billiards!Waits
OneOfEachBall     == Billiards!OneOfEachBall
SideFits          == Car!SideFits
KeepsScene        == Golf!KeepsScene
ResetDone         == Golf!ResetDone
=============================================================================
