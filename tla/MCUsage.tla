------------------------------ MODULE MCUsage ------------------------------
(***************************************************************************)
(* Bounded instances of UsageBody.                                         *)
(***************************************************************************)
EXTENDS UsageBody

Doc(choices, out) ==
    [json |-> TRUE, mentions |-> TRUE, choices |-> choices, last |-> choices = "empty",
     usage |-> TRUE, out |-> out, in |-> {}, itl |-> {}, gen |-> {}]

MCContent ==
    [final  |-> [Doc("empty", {3}) EXCEPT !.in = {2}, !.itl = {5}],
     other  |-> Doc("empty", {0}),
     chunk  |-> Doc("some", {1}),
     broken |-> Doc("empty", {}),
     delta  |-> [Doc("some", {}) EXCEPT !.usage = FALSE, !.mentions = FALSE]]

MCConfigs ==
    {[streaming |-> TRUE, format |-> "completions", hooks |-> {"usage", "terminal"}, length |-> -1],
     [streaming |-> TRUE, format |-> "responses", hooks |-> {"evidence"}, length |-> -1],
     [streaming |-> FALSE, format |-> "completions", hooks |-> {"usage", "terminal"}, length |-> -1],
     [streaming |-> FALSE, format |-> "completions", hooks |-> {"usage"}, length |-> -1]}
    \cup {[streaming |-> FALSE, format |-> "completions", hooks |-> {"usage", "terminal"},
           length |-> l] : l \in {0, 2, 5}}
    \cup {[streaming |-> FALSE, format |-> "responses", hooks |-> {"evidence"},
           length |-> l] : l \in {-1, 3, 9}}

MCChunks ==
    [s \in BOOLEAN |->
       IF s THEN {<<"data", "final", "nl">>, <<"nl">>, <<"data">>, <<"sp", "other">>,
                  <<"data", "chunk">>, <<"nl", "data", "broken">>, <<"data", "done", "nl">>,
                  <<"cr", "nl">>, <<"text", "delta">>}
            ELSE {<<"sp">>, <<"chunk">>, <<"sp", "chunk">>, <<"final", "nl", "nl">>}]

MCMaxBody == [s \in BOOLEAN |-> IF s THEN 8 ELSE 7]

\* Plain bodies with a timing at the limit of a duration, below and above it.
TimingContent ==
    [t \in {"under", "limit", "over"} |->
       [Doc("some", {3}) EXCEPT !.itl = {CASE t = "under" -> 2 * MaxInt - 7
                                           [] t = "limit" -> 2 * MaxInt + 1
                                           [] OTHER       -> 4 * MaxInt}]]
TimingConfigs ==
    {[streaming |-> FALSE, format |-> "completions", hooks |-> {"usage"}, length |-> -1]}
TimingChunks == [s \in BOOLEAN |-> {<<"under">>, <<"limit">>, <<"over">>}]
============================================================================
