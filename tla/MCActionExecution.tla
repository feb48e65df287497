------------------------- MODULE MCActionExecution -------------------------
(***************************************************************************)
(* Small instances of ActionExecution: one or two executions against one   *)
(* GameServer, with an action of each concurrency mode and one the         *)
(* profile does not declare.                                               *)
(***************************************************************************)
EXTENDS ActionExecution

MCExecs == {[ns |-> "a", name |-> "x"], [ns |-> "a", name |-> "y"]}

MCOneExec == {[ns |-> "a", name |-> "x"]}

MCConcurrency == [save |-> "serialize", wipe |-> "exclusive",
                  say |-> "allow", nosuch |-> "allow"]

MCDeclared == {"save", "wipe", "say"}

MCRequired == [save |-> {}, wipe |-> {"confirm"}, say |-> {}, nosuch |-> {}]

Submit(targetNs, action, params) ==
    [targetNs |-> targetNs, target |-> "s", action |-> action, params |-> params]

\* One execution of each kind: refused for its action or its parameters, or
\* admitted.
MCSpecs == {Submit("", "nosuch", {}), Submit("", "wipe", {}),
            Submit("", "wipe", {"confirm"}), Submit("a", "say", {})}

\* Executions that reach the agent, one of each concurrency mode.
MCRunSpecs == {Submit("", "wipe", {"confirm"}), Submit("", "save", {}),
               Submit("a", "say", {})}
============================================================================
