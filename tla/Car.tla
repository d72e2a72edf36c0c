-------------------------------- MODULE Car --------------------------------
(***************************************************************************)
(* The third scene of Computer Graphics (third_delivery/projeto3_G15.js):  *)
(* a car on a turning base, lit by a sun and three spotlights.  Keys       *)
(* switch the lights, the calculation of light and the shading, and choose *)
(* the camera; the window may be resized at any time.                      *)
(*                                                                         *)
(* The meshes of the scene always get the same of their three materials,   *)
(* a spotlight and its helper the same visibility: each is one variable.   *)
(* The shape of a picture is <<width, height>>, and only their ratio       *)
(* counts.                                                                 *)
(***************************************************************************)
EXTENDS Integers

CONSTANTS Windows,      \* the sizes <<innerWidth, innerHeight>> the window may have
          FirstWindow,  \* the window in which the page is opened
          MaxTurn       \* bound: the steps the base is turned from where it began

CarAssumption == /\ Windows \subseteq Nat \X Nat /\ MaxTurn \in Nat
                 /\ FirstWindow \in Windows
                 /\ FirstWindow[1] > 0 /\ FirstWindow[2] > 0

Basic == 0  Lambert == 1  Phong == 2
Lights == {"dirLight", "spotLight0", "spotLight1", "spotLight2"}

VARIABLES material,      \* the index of the material of every mesh
          visible,       \* the lights that are on
          held, base,    \* the arrows whose flag is true, the angle of the base
          activeCamera,
          window,        \* <<innerWidth, innerHeight>>
          comp, larg,    \* the width and the height the side camera was made for
          sideShape,     \* of cameraSide: (right - left) to (top - bottom)
          perspShape     \* of cameraPersp: its aspect

scenery == <<material, visible, held, base>>
shapes  == <<comp, larg, sideShape, perspShape>>
vars == <<scenery, activeCamera, window, shapes>>

Init == /\ material = Basic
        /\ visible = {"dirLight"}     \* init turns the spotlights off
        /\ held = {} /\ base = 0
        /\ activeCamera = "cameraPersp"
        /\ window = FirstWindow
        /\ comp = window[1] /\ larg = window[2]
        /\ sideShape = window /\ perspShape = window

-----------------------------------------------------------------------------
turnOnOffLight(l) ==
  /\ visible' = IF l \in visible THEN visible \ {l} ELSE visible \cup {l}
  /\ UNCHANGED <<material, held, base, activeCamera, window, shapes>>

\* w: light is calculated, with Gouraud shading first, or not at all.
changeCalcusMaterial ==
  /\ material' = IF material = Basic THEN Lambert ELSE Basic
  /\ UNCHANGED <<visible, held, base, activeCamera, window, shapes>>

\* e: Gouraud or Phong, while light is calculated.
changeShading ==
  /\ material # Basic
  /\ material' = IF material = Lambert THEN Phong ELSE Lambert
  /\ UNCHANGED <<visible, held, base, activeCamera, window, shapes>>

Look(c) == activeCamera' = c /\ UNCHANGED <<scenery, window, shapes>>

Press(k)   == /\ held' = held \cup {k}
              /\ UNCHANGED <<material, visible, base, activeCamera, window, shapes>>
Release(k) == /\ held' = held \ {k}
              /\ UNCHANGED <<material, visible, base, activeCamera, window, shapes>>

\* rotateBase: with both arrows held the base stays.
animate == /\ base' = base + (IF "right" \in held THEN 1 ELSE 0) - (IF "left" \in held THEN 1 ELSE 0)
           /\ base' \in -MaxTurn .. MaxTurn
           /\ UNCHANGED <<material, visible, held, activeCamera, window, shapes>>

-----------------------------------------------------------------------------
\* onResize.  Only the camera in use is adapted; the frustum of the side camera
\* keeps its height if the height of the window changed, else its width.
FitPersp == /\ activeCamera = "cameraPersp"
            /\ perspShape' = window'
            /\ UNCHANGED <<comp, larg, sideShape>>

\* Fault: the height the frustum was made for is not recorded.
FitHeightLost == /\ activeCamera = "cameraSide" /\ window'[2] # larg
                 /\ sideShape' = window'
                 /\ comp' = window'[2]
                 /\ UNCHANGED <<larg, perspShape>>

\* The width that is recorded is the height (line 453).
FitHeight == /\ activeCamera = "cameraSide" /\ window'[2] # larg
             /\ sideShape' = window'
             /\ comp' = window'[2] /\ larg' = window'[2]
             /\ UNCHANGED perspShape

FitWidth == /\ activeCamera = "cameraSide" /\ window'[2] = larg /\ window'[1] # comp
            /\ sideShape' = window'
            /\ comp' = window'[1] /\ larg' = window'[2]
            /\ UNCHANGED perspShape

FitNothing == /\ activeCamera = "cameraSide" /\ window'[2] = larg /\ window'[1] = comp
              /\ UNCHANGED shapes

onResize ==
  /\ window' \in Windows \ {window}
  /\ IF window'[1] > 0 /\ window'[2] > 0
     THEN FitPersp \/ FitHeight \/ FitWidth \/ FitNothing
     ELSE UNCHANGED shapes
  /\ UNCHANGED <<scenery, activeCamera>>

Next == \/ \E l \in Lights : turnOnOffLight(l)
        \/ changeCalcusMaterial \/ changeShading
        \/ \E c \in {"cameraPersp", "cameraSide"} : Look(c)
        \/ \E k \in {"left", "right"} : Press(k) \/ Release(k)
        \/ animate
        \/ onResize

Spec == Init /\ [][Next]_vars

-----------------------------------------------------------------------------
TypeOK == /\ material \in {Basic, Lambert, Phong}
          /\ visible \subseteq Lights
          /\ held \subseteq {"left", "right"}
          /\ base \in Int
          /\ activeCamera \in {"cameraPersp", "cameraSide"}
          /\ {window, sideShape, perspShape} \subseteq Windows
          /\ comp \in Nat /\ larg \in Nat

Undistorted(shape, size) == shape[1] * size[2] = size[1] * shape[2]

\* A resize that the side camera sees leaves it undistorted, whatever sizes the
\* window had while the other camera was in use, unless the window becomes a
\* square: larg and comp say when the frustum is out of date, and only comp,
\* which may hold a height, can say so wrongly.
SideFits == [][/\ window' # window /\ activeCamera = "cameraSide"
               /\ window'[1] > 0 /\ window'[2] > 0
               => Undistorted(sideShape', window') \/ window'[1] = window'[2]]_vars
=============================================================================
