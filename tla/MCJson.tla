------------------------------ MODULE MCJson ------------------------------
(* Values of the constants of Json for TLC. *)
EXTENDS JsonGrammar

\* The strings that raw strings of at most two characters denote, and one more, and hashes
\* that make two of them collide in a table of four buckets.
NamesDef == {<<>>, <<"t">>, <<"t", "t">>, <<"tab">>, <<"bs">>, <<"q">>, <<"t", "q">>}
HashDef  == (<<>> :> 0) @@ (<<"t">> :> 1) @@ (<<"t", "t">> :> 5) @@ (<<"tab">> :> 2)
            @@ (<<"bs">> :> 6) @@ (<<"q">> :> 3) @@ (<<"t", "q">> :> 9)
RankDef  == (<<>> :> 0) @@ (<<"tab">> :> 1) @@ (<<"q">> :> 2) @@ (<<"bs">> :> 3)
            @@ (<<"t">> :> 4) @@ (<<"t", "q">> :> 5) @@ (<<"t", "t">> :> 6)
PutNamesDef == {<<"t">>, <<"t", "t">>, <<"tab">>}

\* A chunk is one token, part of one, or a name with its colon.
ChunksDef == {<<"{">>, <<"}", "sp">>, <<"[">>, <<"sp", "]">>, <<",">>, <<"t">>, <<"q">>,
              <<"q", "t", "q", ":">>, <<",", "q", "q", ":">>,
              <<",", "q", "t", "q", ":">>,
              <<"0">>, <<"1">>, <<"-">>, <<".">>, <<"1", ".", "0">>,
              <<"0", ".", "0", "1", "1", "1">>}
StringChunksDef == {<<"q">>, <<"t">>, <<"bs">>, <<"tab">>}
=============================================================================
