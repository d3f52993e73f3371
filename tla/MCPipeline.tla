-------------------------------- MODULE MCPipeline --------------------------------
(* Instances of Pipeline for TLC: every line of up to three tokens and two pipes, *)
(* and longer ones that form pipelines, have several redirections, take an        *)
(* operator for a file, leave a stage without tokens, or fill the array.          *)
EXTENDS Pipeline

Simple == {WORD, INPUT, OUTPUT, PIPE}

Words(n) == [k \in 1..n |-> WORD]

MCLines ==
  {<<a>> : a \in Simple} \union {<<a, b>> : a, b \in Simple}
  \union ({<<a, b, c>> : a, b, c \in Simple} \ {<<PIPE, PIPE, PIPE>>})
  \union {<<BUILTIN>>, <<BUILTIN, OUTPUT, WORD>>, Words(MAX_ARGS),
          Words(MAX_ARGS - 2) \o <<OUTPUT>>, <<INPUT>> \o Words(MAX_ARGS - 3),
          <<OUTPUT>> \o Words(MAX_ARGS - 2),
          <<WORD, PIPE, WORD, PIPE, WORD>>,
          <<WORD, PIPE, PIPE, WORD>>,
          <<WORD, PIPE, OUTPUT, WORD>>,
          <<WORD, INPUT, WORD, OUTPUT, WORD>>,
          <<OUTPUT, WORD, WORD, OUTPUT, PIPE>>,
          <<INPUT, WORD, WORD, PIPE, INPUT, WORD, WORD>>,
          <<WORD, PIPE, WORD, OUTPUT, OUTPUT, WORD, WORD>>,
          <<WORD, INPUT, WORD, PIPE, WORD, PIPE, WORD, OUTPUT, WORD>>}
================================================================================
