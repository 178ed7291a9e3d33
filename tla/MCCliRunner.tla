---------------------------- MODULE MCCliRunner ----------------------------
(***************************************************************************)
(* Command lines of three parts: one of four scenarios, followed by up to  *)
(* two more options, good or bad, in any order.                            *)
(***************************************************************************)
EXTENDS CliRunner

Numbers == [w \in {"-1", "0", "3", "7000", "-999"} |->
               CASE w = "-1" -> -1 [] w = "0" -> 0 [] w = "3" -> 3
                 [] w = "7000" -> 7000 [] w = "-999" -> -999]

TenfoldNumbers == [w \in {"-1", "0", "3", "0.7", "1.5"} |->
               CASE w = "-1" -> -10 [] w = "0" -> 0 [] w = "3" -> 30
                 [] w = "0.7" -> 7 [] w = "1.5" -> 15]

\* Defaults; three ticks of inattention; three ticks around the moment a blocked
\* camera has been blocked for t_absent; three with timestamps that start below 0.
Scenarios ==
    {<<>>,
     <<"--ticks", "3", "--dt", "3">>,
     <<"--ticks", "3", "--ts", "7000", "--camera-blocked", "yes",
       "--camera-blocked-ts", "-999">>,
     <<"--ticks", "3", "--ts", "-1", "--reason", "unresponsive">>}

GoodOptions ==
    {<<"--attentive", w>> : w \in {"true", "on"}}
    \cup {<<"--reason", w>> : w \in {"none", "phone", "drowsy", "intoxicated", "angry"}}
    \cup {<<"--ts", w>> : w \in {"-1", "7000"}}
    \cup {<<"--reason-ts", w>> : w \in {"-1", "3"}}
    \cup {<<"--dt", w>> : w \in {"-1", "1.5"}}
    \cup {<<"--ticks", w>> : w \in {"-1", "3"}}
    \cup {<<"--jetracer", w>> : w \in {"0", "0.7"}}
    \cup {<<"--lkas-throttle", "-1">>, <<"--lkas-mode", "on_inactive">>,
          <<"--lkas-mode", "none">>, <<"--switch", "on">>, <<"--switch", "OFF">>,
          <<"--override", "1">>, <<"--notebook-alive", "no">>,
          <<"--camera-blocked", "y">>, <<"--camera-blocked-ts", "0">>}

BadOptions == {<<"--help">>, <<"--verbose">>, <<"--dt">>, <<"--reason">>,
               <<"--ticks", "many">>, <<"--dt", "fast">>}

Parts == {<<>>} \cup GoodOptions \cup BadOptions
Lines == {s \o p \o q : s \in Scenarios, p \in Parts, q \in Parts}
=============================================================================
