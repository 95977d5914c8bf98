----------------------------- MODULE MCOnionPlan -----------------------------
(* Small descriptions, in the shape of those under PoCs and Tests. *)
EXTENDS OnionPlan

Buf(ol, n) == [ol |-> ol, image |-> FALSE, N |-> n, usage |-> {}, track |-> FALSE]
Img(ol, n, usage, track) == [ol |-> ol, image |-> TRUE, N |-> n, usage |-> usage, track |-> track]
Ref(c, s, l) == [consumer |-> c, slot |-> s, latency |-> l]
Target(id, ol, refs) == [id |-> id, ol |-> ol, target |-> TRUE, self |-> FALSE, refs |-> refs]
Source(id, ol, refs) == [id |-> id, ol |-> ol, target |-> FALSE, self |-> FALSE, refs |-> refs]
Reads(id, a) == [id |-> id, descriptor |-> TRUE, stages |-> {"fragment"}, access |-> a]
Computes(id, a) == [id |-> id, descriptor |-> TRUE, stages |-> {"compute"}, access |-> a]
Vertices(id) == [id |-> id, descriptor |-> FALSE, stages |-> {"vertex"}, access |-> {"vertexRead"}]
Pass(id, depth, color, input, shaders) == [id |-> id, depth |-> depth, color |-> color, input |-> input, shaders |-> shaders]
Shader(id, target, source) == [id |-> id, target |-> target, source |-> source]
Layer(copies, renders, computes) == [copies |-> copies, renders |-> renders, computes |-> computes]
None == [k \in {} |-> k]

\* A camera with a window and props with staged uniforms and vertices.
Forward ==
  [RSS |-> ("stage" :> Buf("prop", 2)) @@ ("uni" :> Buf("prop", 1)) @@ ("mesh" :> Buf("prop", 1))
           @@ ("color" :> Img("cam", 2, {"color", "transferSrc"}, TRUE)) @@ ("depth" :> Img("cam", 1, {"depth"}, TRUE)),
   CSS |-> "up" :> [src |-> "upS", dst |-> "upD"],
   RPRS |-> <<Pass("main", "zC", {"colC"}, {}, <<Shader("draw", {}, {Reads("uniC", {"uniformRead"}), Vertices("meshC")})>>)>>,
   CSRS |-> << >>, LRS |-> <<Layer(<<"up">>, <<"main">>, << >>)>>,
   windows |-> ("cam" :> "winC") @@ ("prop" :> NoId),
   XLS |-> <<Target("view", "cam", {Ref("colC", "color", 0), Ref("zC", "depth", 0), Ref("winC", "color", 0)}),
             Source("body", "prop", {Ref("upS", "stage", 0), Ref("upD", "uni", 0), Ref("uniC", "uni", 0), Ref("meshC", "mesh", 0)})>>]

\* The frame before is copied (latency 1 of 2) and sampled.
History ==
  [RSS |-> ("color" :> Img("cam", 2, {"color", "transferSrc"}, TRUE)) @@ ("prev" :> Img("cam", 1, {"transferDst", "sampled"}, TRUE)),
   CSS |-> "keep" :> [src |-> "keepS", dst |-> "keepD"],
   RPRS |-> <<Pass("main", NoId, {"colC"}, {}, <<Shader("blur", {Reads("prevC", {"sampledRead"})}, {})>>)>>,
   CSRS |-> << >>, LRS |-> <<Layer(<<"keep">>, <<"main">>, << >>)>>,
   windows |-> "cam" :> NoId,
   XLS |-> <<Target("view", "cam", {Ref("colC", "color", 0), Ref("keepS", "color", 1), Ref("keepD", "prev", 0), Ref("prevC", "prev", 0)})>>]

\* Two layers and a shader over what they drew; the window shows its output.
Deferred ==
  [RSS |-> ("albedo" :> Img("cam", 1, {"color", "input", "sampled"}, FALSE)) @@ ("light" :> Img("cam", 1, {"color", "storage"}, FALSE))
           @@ ("out" :> Img("cam", 2, {"storage", "transferSrc"}, TRUE)),
   CSS |-> None,
   RPRS |-> <<Pass("geometry", NoId, {"albC"}, {}, <<Shader("fill", {}, {})>>),
              Pass("shade", NoId, {"litC"}, {"albI"}, <<Shader("lamps", {}, {})>>)>>,
   CSRS |-> <<Shader("tone", {Computes("litR", {"shaderRead"}), Computes("outC", {"shaderWrite"})}, {})>>,
   LRS |-> <<Layer(<< >>, <<"geometry">>, << >>), Layer(<< >>, <<"shade">>, <<"tone">>)>>,
   windows |-> "cam" :> "winC",
   XLS |-> <<Target("view", "cam", {Ref("albC", "albedo", 0), Ref("albI", "albedo", 0), Ref("litC", "light", 0),
                                    Ref("litR", "light", 0), Ref("outC", "out", 0), Ref("winC", "out", 0)})>>]

\* Objects that move, are drawn in each other's windows and steer.
Swarm ==
  [RSS |-> ("pos" :> Buf("boid", 1)) @@ ("vel" :> Buf("boid", 1)) @@ ("view" :> Img("boid", 1, {"color", "transferSrc"}, TRUE)),
   CSS |-> None,
   RPRS |-> <<Pass("look", NoId, {"viewC"}, {}, <<Shader("boids", {}, {Vertices("posV")})>>)>>,
   CSRS |-> <<Shader("steer", {Computes("velT", {"shaderWrite"}), Computes("posT", {"shaderRead"})}, {}),
              Shader("move", {}, {Computes("posW", {"shaderWrite"})})>>,
   LRS |-> <<Layer(<< >>, << >>, <<"move">>), Layer(<< >>, <<"look">>, <<"steer">>)>>,
   windows |-> "boid" :> "winC",
   XLS |-> <<Target("steered", "boid", {Ref("velT", "vel", 0), Ref("posT", "pos", 0), Ref("viewC", "view", 0), Ref("winC", "view", 0)}),
             Source("seen", "boid", {Ref("posV", "pos", 0), Ref("posW", "pos", 0)})>>]

\* Three images, of which the newest is drawn and the one before is copied.
Triple ==
  [RSS |-> ("color" :> Img("cam", 3, {"color", "transferSrc"}, FALSE)) @@ ("prev" :> Img("cam", 1, {"transferDst"}, FALSE)),
   CSS |-> "keep" :> [src |-> "keepS", dst |-> "keepD"],
   RPRS |-> <<Pass("main", NoId, {"colC"}, {}, <<Shader("fill", {}, {})>>)>>,
   CSRS |-> << >>, LRS |-> <<Layer(<< >>, <<"main">>, << >>), Layer(<<"keep">>, << >>, << >>)>>,
   windows |-> "cam" :> NoId,
   XLS |-> <<Target("view", "cam", {Ref("colC", "color", 0), Ref("keepS", "color", 2), Ref("keepD", "prev", 0)})>>]

\* A buffer between two passes of a layer, and an image read in two ways.
Passes ==
  [RSS |-> ("hits" :> Buf("cam", 1)) @@ ("a" :> Img("cam", 1, {"color", "transferSrc", "sampled"}, FALSE))
           @@ ("b" :> Img("cam", 1, {"color", "transferDst"}, FALSE)),
   CSS |-> "show" :> [src |-> "showS", dst |-> "showD"],
   RPRS |-> <<Pass("first", NoId, {"aC"}, {}, <<Shader("count", {Reads("hitW", {"shaderWrite"})}, {})>>),
              Pass("second", NoId, {"bC"}, {}, <<Shader("use", {Reads("hitR", {"shaderRead"})}, {})>>)>>,
   CSRS |-> <<Shader("look", {Computes("aS", {"sampledRead"})}, {})>>,
   LRS |-> <<Layer(<< >>, <<"first", "second">>, << >>), Layer(<<"show">>, << >>, <<"look">>)>>,
   windows |-> "cam" :> NoId,
   XLS |-> <<Target("view", "cam", {Ref("aC", "a", 0), Ref("bC", "b", 0), Ref("hitW", "hits", 0), Ref("hitR", "hits", 0),
                                    Ref("showS", "a", 0), Ref("showD", "b", 0), Ref("aS", "a", 0)})>>]

\* What was drawn last is kept before it is drawn over: a read, then a write.
Accumulate ==
  [History EXCEPT !.RSS = ("color" :> Img("cam", 1, {"color", "transferSrc"}, FALSE)) @@ ("prev" :> Img("cam", 1, {"transferDst", "sampled"}, FALSE)),
     !.XLS = <<Target("view", "cam", {Ref("colC", "color", 0), Ref("keepS", "color", 0), Ref("keepD", "prev", 0), Ref("prevC", "prev", 0)})>>]

\* The other way round: positions are read, then written.
LookFirst == [Swarm EXCEPT !.LRS = <<Layer(<< >>, << >>, <<"steer">>), Layer(<< >>, <<"look">>, <<"move">>)>>]

Sound == {Forward, History, Deferred, Swarm, Triple, Passes}
ReadThenWrite == {Accumulate, LookFirst}

ASSUME \A d \in Sound \cup ReadThenWrite : getErrors(d) = {} /\ Compiles(Compiled(d))
=============================================================================
