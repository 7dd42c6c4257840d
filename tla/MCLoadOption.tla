---------------------------- MODULE MCLoadOption ----------------------------
(***************************************************************************)
(* An instance of LoadOption scaled to small length fields: paths of up to *)
(* Half - 1 bytes, blobs of up to MaxLoadOptionBytes.                      *)
(***************************************************************************)
EXTENDS LoadOption

CONSTANT RawMax  \* longest arbitrary blob within the ceiling

N(kind, data) == [kind |-> kind, data |-> data]

\* No description, a plain one, one UTF-16 cannot carry, one with a NUL.
MCDescs == {<<>>, <<"char">>, <<"bad", "char">>, <<"char", "nul", "char">>}

\* No path, short and long ones, one at and one above the largest length
\* field, a node too long for it, and a path that holds the terminator.
MCPaths ==
    {<<>>, <<N("hd", 2)>>, <<N("hd", 2), N("file", 6)>>, <<N("file", 0), N("hd", 1)>>,
     <<N("hd", Half - 9)>>, <<N("hd", Half - 8)>>, <<N("hd", Half - 4)>>,
     <<N("hd", 2), N("end", 0)>>}

\* The last one takes a blob with a four-byte description over the ceiling.
MCOpts == {0, 3, MaxLoadOptionBytes - Prefix - 4, MaxLoadOptionBytes - Prefix - 3}

MCOptions == [desc : MCDescs, nodes : MCPaths, opt : MCOpts]

MCBlobLens == 0 .. RawMax \cup {MaxLoadOptionBytes + 1}
=============================================================================
