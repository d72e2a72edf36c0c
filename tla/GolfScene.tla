----------------------------- MODULE GolfScene -----------------------------
(***************************************************************************)
(* What the golf page (fourth_delivery/projeto4_G15.js) promises.  Each    *)
(* key changes one thing of the picture and only while the game is not     *)
(* paused; a frame moves the flag and the ball; a restart makes everything *)
(* but the flag what it was at first.                                      *)
(***************************************************************************)
EXTENDS Integers

CONSTANT FullTurn    \* the steps after which the flag stands as before

VARIABLES paused,
          shaded,    \* light is calculated
          wires,     \* all four meshes are drawn as wires
          lights,    \* the lights that are on
          rolling,
          ball,      \* <<how far it has rolled, the phase of its bouncing>>
          flag,      \* the angle of the flag
          view       \* "home", or "moved" by the mouse

world == <<shaded, wires, lights, rolling, ball, flag>>
vars  == <<paused, world, view>>

AllLights == {"dirLight", "pointLight"}

\* All but the flag are as they are at first.
AtStart == /\ shaded = TRUE /\ wires = FALSE
           /\ lights = AllLights
           /\ rolling = FALSE /\ ball = <<0, 0>>
           /\ view = "home"

Init == AtStart /\ ~paused /\ flag = 0

Switch(l) == /\ ~paused
             /\ lights' = IF l \in lights THEN lights \ {l} ELSE lights \cup {l}
             /\ UNCHANGED <<paused, shaded, wires, rolling, ball, flag, view>>
Shade == /\ ~paused /\ shaded' = ~shaded
         /\ UNCHANGED <<paused, wires, lights, rolling, ball, flag, view>>
Wire == /\ ~paused /\ wires' = ~wires
        /\ UNCHANGED <<paused, shaded, lights, rolling, ball, flag, view>>
Roll == /\ ~paused /\ rolling' = ~rolling
        /\ UNCHANGED <<paused, shaded, wires, lights, ball, flag, view>>
Pause == paused' = ~paused /\ UNCHANGED <<world, view>>
Orbit == view' = "moved" /\ UNCHANGED <<paused, world>>

\* Where the ball is says how high it is.
Frame == /\ ~paused
         /\ flag' = (flag + 1) % FullTurn
         /\ ball' = IF rolling THEN <<ball[1] + 1, ball[1] + 1>> ELSE ball
         /\ UNCHANGED <<paused, shaded, wires, lights, rolling, view>>

Restart == /\ AtStart'
           /\ paused' = FALSE
           /\ flag' = (flag + 1) % FullTurn

Next == \/ \E l \in AllLights : Switch(l)
        \/ Shade \/ Wire \/ Roll \/ Pause \/ Orbit \/ Frame \/ Restart

Spec == Init /\ [][Next]_vars
=============================================================================
