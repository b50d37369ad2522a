-------------------------- MODULE MCHistoryImport ---------------------------
(* Small instances of HistoryImport for TLC: the lines an agent of each    *)
(* kind writes.                                                            *)
EXTENDS HistoryImport, TLC

CONSTANTS k1, k2, k3, hello, bye, tool

Header == [kind |-> "session", key |-> NoKey]
Junk == [kind |-> "junk", key |-> NoKey]
Message(key, text) == [kind |-> "message", key |-> key, text |-> text]
Call(key, parent, text) == [kind |-> "call", key |-> key, parent |-> parent, text |-> text]
Chat(key, parent, call, time) ==
    [kind |-> "message", key |-> key, text |-> key, parent |-> parent, call |-> call, time |-> time]

\* Calls that name a message need one, the others belong to the message before.
MCLines ==
    "membox" :> {Header, Message(k1, hello), Message(NoKey, bye), Call(tool, k1, hello),
                 Call(NoKey, NoKey, hello), Call(NoKey, NoKey, bye)} @@
    "codex" :> {Header, Message(NoKey, hello), Message(NoKey, bye), Call(tool, NoKey, hello),
                Call(NoKey, NoKey, hello), Call(NoKey, NoKey, bye)} @@
    "pi" :> {Header, Message(k1, hello), Message(NoKey, bye)} @@
    "claude" :> {Junk, Chat(k1, NoKey, tool, 1), Chat(k2, k1, NoKey, 1), Chat(k3, NoKey, NoKey, 0)}

\* A log of the membox format whose events have no call_id.
KeylessLines == "membox" :> {Header, Message(k1, hello),
                             Call(NoKey, NoKey, hello), Call(NoKey, NoKey, bye)}

Importers == Permutations(Procs)
=============================================================================
