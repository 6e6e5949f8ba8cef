--------------------------- MODULE MCFileLayers ---------------------------
(* The users of the file layers, and the files under them. *)
EXTENDS FileLayers

MCSetups ==
  {<<"journal", "memory">>, <<"journal", "encoded">>, <<"journal", "server">>,
   <<"player", "memory">>, <<"stream", "memory">>}
=============================================================================
