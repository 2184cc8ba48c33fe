----------------------------- MODULE MCPipeline -----------------------------
(* Bounds for TLC: every combination of the driver's options with two or   *)
(* three values each, and command lines that take each way through the     *)
(* extractor's parser.                                                     *)
EXTENDS Pipeline

MaxWord == 1000000

MCWishes ==
  [trace : {"a.run", "-a.run", "--sample"}, sample : {"", "s.exe"}, max_calls : {"", "0", "7", "-1"},
   with_stack_args : BOOLEAN, win32_index : {"", "w.bin"}, no_metadata : BOOLEAN,
   max_buffer : {"", "0", "7"}, keep_json : BOOLEAN]

MCCommandLines ==
  {<<>>, <<"">>, <<"a.run">>, <<"a.run", "b.run">>, <<"a.run", "-o">>, <<"-x">>,
   <<"--dump-sig", "Sleep">>, <<"a.run", "-b", "r.ttdb">>,
   <<"--progress", "--cancel-on-stdin", "a.run", "--output", "r.json", "--output", "q.json">>,
   <<"--binary", "r.ttdb", "--ttd-dlls", "d", "a.run", "--max-calls", "--max-buffer", "7">>}

MCDashed ==
  {"-a.run", "-x", "-o", "-b", "--binary", "--sample", "--output", "--max-calls",
   "--with-stack-args", "--ttd-dlls", "--win32-index", "--no-metadata", "--max-buffer",
   "--dump-sig", "--progress", "--cancel-on-stdin"}

MCWcstoull ==
  [text \in {"", "0", "7", "-1", "--max-buffer"} |->
     CASE text = "7" -> 7 [] text = "-1" -> MaxWord [] OTHER -> 0]
============================================================================
