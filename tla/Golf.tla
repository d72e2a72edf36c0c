-------------------------------- MODULE Golf --------------------------------
(***************************************************************************)
(* The fourth scene of Computer Graphics (fourth_delivery/                 *)
(* projeto4_G15.js): a ball that bounces over a green, a flag that turns,  *)
(* a pause screen, and a reset that is asked for while the game is paused  *)
(* and done by the next animation frame.                                   *)
(*                                                                         *)
(* Floor, pole, triangle and ball each have two materials, used and        *)
(* changed together: material is the index in use, and wireframe belongs   *)
(* to the materials, so the one not in use keeps its own.                  *)
(***************************************************************************)
EXTENDS Integers

CONSTANTS FullTurn,     \* the steps of the flag's turn
          MaxDistance,  \* bound: the model does not follow the ball further
          Windows,      \* the sizes <<innerWidth, innerHeight>> the window may have
          FirstWindow   \* the window in which the page is opened

GolfAssumption == /\ FullTurn \in Nat \ {0} /\ MaxDistance \in Nat
                  /\ Windows \subseteq Nat \X Nat /\ FirstWindow \in Windows

Basic == 0  Phong == 1
Lights == {"dirLight", "pointLight"}

VARIABLES pause_screen, reset,
          material,     \* the index of the materials in use
          wireframe,    \* wireframe[i]: the flag of the materials i
          visible,      \* the lights that are on
          movingBall, velocity, distance,   \* in steps of a frame
          flag_pivot,   \* the angle of the flag
          view,         \* "home", or "moved" by the mouse (OrbitControls)
          window, perspShape, pauseShape    \* the window, and what the cameras fit

look   == <<material, wireframe, visible>>
ball   == <<movingBall, velocity, distance>>
shapes == <<window, perspShape, pauseShape>>
vars   == <<pause_screen, reset, look, ball, flag_pivot, view, shapes>>

Init == /\ pause_screen = FALSE /\ reset = FALSE
        /\ material = Phong
        /\ wireframe = [i \in {Basic, Phong} |-> FALSE]
        /\ visible = Lights
        /\ movingBall = FALSE /\ velocity = 0 /\ distance = 0
        /\ flag_pivot = 0
        /\ view = "home"
        /\ window = FirstWindow
        /\ perspShape = window /\ pauseShape = window

-----------------------------------------------------------------------------
\* Keys.  While the pause screen is shown only s and r do anything.
turnOnOff(l) ==
  /\ ~pause_screen
  /\ visible' = IF l \in visible THEN visible \ {l} ELSE visible \cup {l}
  /\ UNCHANGED <<pause_screen, reset, material, wireframe, ball, flag_pivot, view, shapes>>

changeWireframe ==
  /\ ~pause_screen
  /\ wireframe' = [wireframe EXCEPT ![material] = ~@]
  /\ UNCHANGED <<pause_screen, reset, material, visible, ball, flag_pivot, view, shapes>>

\* Fault: the other material is drawn as it was last drawn.
changeCalcusMaterialOnly ==
  /\ ~pause_screen
  /\ material' = 1 - material
  /\ UNCHANGED <<pause_screen, reset, wireframe, visible, ball, flag_pivot, view, shapes>>

\* The other material takes over the wireframe of the one it replaces.
changeCalcusMaterial ==
  /\ ~pause_screen
  /\ material' = 1 - material
  /\ wireframe' = [wireframe EXCEPT ![1 - material] =
                     IF @ # wireframe[material] THEN ~@ ELSE @]
  /\ UNCHANGED <<pause_screen, reset, visible, ball, flag_pivot, view, shapes>>

KeyBall == /\ ~pause_screen
           /\ movingBall' = ~movingBall
           /\ UNCHANGED <<pause_screen, reset, look, velocity, distance, flag_pivot, view, shapes>>

KeyPause == /\ pause_screen' = ~pause_screen
            /\ UNCHANGED <<reset, look, ball, flag_pivot, view, shapes>>

KeyReset == /\ pause_screen
            /\ reset' = TRUE
            /\ UNCHANGED <<pause_screen, look, ball, flag_pivot, view, shapes>>

\* The mouse moves the camera, also under the pause screen.
Orbit == view' = "moved" /\ UNCHANGED <<pause_screen, reset, look, ball, flag_pivot, shapes>>

\* The camera in use is always cameraPersp: onResize never adapts cameraPause.
onResize == /\ window' \in Windows \ {window}
            /\ perspShape' = IF window'[1] > 0 /\ window'[2] > 0 THEN window' ELSE perspShape
            /\ UNCHANGED <<pause_screen, reset, look, ball, flag_pivot, view, pauseShape>>

-----------------------------------------------------------------------------
moveFlag == flag_pivot' = (flag_pivot + 1) % FullTurn

moveBall == IF movingBall
            THEN /\ distance < MaxDistance
                 /\ velocity' = velocity + 1 /\ distance' = distance + 1
            ELSE UNCHANGED <<velocity, distance>>

\* Fault: the reset waits until the pause screen is shown.
ResetFramePaused ==
  /\ reset /\ pause_screen
  /\ material' = Phong
  /\ wireframe' = [wireframe EXCEPT ![Phong] = FALSE]
  /\ visible' = Lights
  /\ movingBall' = FALSE /\ velocity' = 0 /\ distance' = 0
  /\ view' = "home"
  /\ reset' = FALSE /\ pause_screen' = FALSE
  /\ moveFlag

\* A frame that resets the scene: the pause ends, so the flag moves as well.
\* Of the materials that are not in use afterwards wireframe is left alone.
ResetFrame ==
  /\ reset
  /\ material' = Phong
  /\ wireframe' = [wireframe EXCEPT ![Phong] = FALSE]
  /\ visible' = Lights
  /\ movingBall' = FALSE /\ velocity' = 0 /\ distance' = 0
  /\ view' = "home"
  /\ reset' = FALSE /\ pause_screen' = FALSE
  /\ moveFlag

\* Any other frame; while the pause screen is shown it only draws.
PlayFrame == /\ ~reset /\ ~pause_screen
             /\ moveBall /\ moveFlag
             /\ UNCHANGED <<pause_screen, reset, look, movingBall, view>>

animate == (ResetFrame \/ PlayFrame) /\ UNCHANGED shapes

Next == \/ \E l \in Lights : turnOnOff(l)
        \/ changeWireframe \/ changeCalcusMaterial
        \/ KeyBall \/ KeyPause \/ KeyReset
        \/ Orbit \/ onResize
        \/ animate

\* The browser goes on asking for frames; keys need never be pressed.
Spec == Init /\ [][Next]_vars /\ WF_vars(animate)

-----------------------------------------------------------------------------
TypeOK == /\ pause_screen \in BOOLEAN /\ reset \in BOOLEAN
          /\ material \in {Basic, Phong}
          /\ wireframe \in [{Basic, Phong} -> BOOLEAN]
          /\ visible \subseteq Lights
          /\ movingBall \in BOOLEAN /\ velocity \in Nat /\ distance \in Nat
          /\ flag_pivot \in 0 .. FullTurn - 1
          /\ view \in {"home", "moved"}
          /\ {window, perspShape, pauseShape} \subseteq Windows

\* The picture: the wireframe are those of the material in use.
Picture == INSTANCE GolfScene WITH paused <- pause_screen, shaded <- (material = Phong),
                                   wires <- wireframe[material], lights <- visible,
                                   rolling <- movingBall, ball <- <<distance, velocity>>,
                                   flag <- flag_pivot

\* The page keeps the promises of GolfScene: whatever i, w and resets did to
\* the materials in turn, i changes only how light is calculated and w only the
\* wireframe; the pause stops everything but the mouse; a reset leaves no trace.
KeepsScene == Picture!Init /\ [][Picture!Next]_(Picture!vars)

\* A reset that is asked for is done, also when the pause ends before the frame
\* that does it.
ResetDone == reset ~> (~reset /\ Picture!AtStart)
=============================================================================
