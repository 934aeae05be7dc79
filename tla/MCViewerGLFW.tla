---------------------------- MODULE MCViewerGLFW ----------------------------
(* One window, two quads with three samplers, an auto-skip with room for two. *)
EXTENDS ViewerGLFW

CONSTANTS i1, i2, w1, A, B

ViewerShader == [q \in {A, B} |-> IF q = A THEN <<"tex">> ELSE <<"tex", "map">>]
ViewerViews == {<<w1, A, "tex">>, <<w1, B, "tex">>}

\* addUniforms takes the samplers one by one, each to the first free entry.
OneByOne(t, did, samplers) ==
    FoldLeft(LAMBDA u, n : Put(u, [deleted |-> FALSE, did |-> did, name |-> n]), t, samplers)

\* WithUniforms is what that comes to.
ASSUME UniformsOneByOne ==
    \A t \in BoundedSeq([deleted : BOOLEAN, did : {1, 2}, name : {"tex"}], 3),
       samplers \in BoundedSeq({"tex", "map"}, 3) :
          WithUniforms(t, 3, samplers) = OneByOne(t, 3, samplers)
=============================================================================
