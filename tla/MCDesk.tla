-------------------------------- MODULE MCDesk --------------------------------
(* Configuration files for the model checker: each differs from a plain one   *)
(* in what decides a branch of DisplayConfig::load_from or ws_url.            *)
EXTENDS Desk

Plain == [toml |-> "ok", url |-> "loopback", path |-> <<>>, token |-> "",
          tokenFile |-> "none", default |-> "none"]

Foreign == [Plain EXCEPT !.url = "foreign"]

MCSetups ==
    {[Plain EXCEPT !.toml = t] : t \in {"absent", "bad"}}
    \cup {[Plain EXCEPT !.path = p] : p \in {<<>>, <<"ws">>, <<"ws", "display">>}}
    \cup {[Foreign EXCEPT !.path = p, !.default = "default"] : p \in {<<"base">>, <<"base", "ws">>}}
    \cup {[Foreign EXCEPT !.tokenFile = f, !.default = d] :
              f \in {"none", "missing", ""}, d \in {"none", "unreadable", ""}}
    \cup {[Plain EXCEPT !.url = "malformed", !.token = "literal"]}

\* One event of each kind, and a pair whose toasts differ in buttons and number.
MCTraffic == {<<k>> : k \in Kinds} \cup {<<"incoming", "sms">>}
===============================================================================
