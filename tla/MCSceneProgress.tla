-------------------------- MODULE MCSceneProgress --------------------------
\* Values for the configurations of SceneProgress: a leads to b, b back to a, and nothing
\* follows c.
EXTENDS SceneProgress, TLC
CONSTANTS a, b, c
ThreeScenes == a :> b @@ b :> a @@ c :> NoScene
=============================================================================
