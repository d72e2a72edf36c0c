----------------------------- MODULE SceneGraph -----------------------------
(***************************************************************************)
(* The tree of a three.js scene, as Object3D.add and Object3D.remove keep  *)
(* it: a function that gives each object its parent, or Nowhere.  An       *)
(* object is among the children of its parent and of nobody else.          *)
(***************************************************************************)
CONSTANT Nowhere   \* the null parent of an object that hangs on nothing

\* x.add(object): an object that has a parent is removed from it first.
add(parent, x, object) == [parent EXCEPT ![object] = x]

\* x.remove(object): does nothing to an object that is no child of x.
remove(parent, x, object) ==
  [parent EXCEPT ![object] = IF @ = x THEN Nowhere ELSE @]

Children(parent, x) == {o \in DOMAIN parent : parent[o] = x}
=============================================================================
