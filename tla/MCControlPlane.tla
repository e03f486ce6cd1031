---------------------------- MODULE MCControlPlane ----------------------------
(* Instances of ControlPlane for TLC: two users of one server, whose hostname *)
(* is also the name the user gave a host.                                     *)
EXTENDS ControlPlane

OneSync == [k \in Kinds |-> IF k = "mount" THEN {"m1", "m2"} ELSE {"s1"}]
MCHostnameOf == [s \in Servers |-> "nas"]

Tool(k) == IF k = "mount" THEN "sshfs" ELSE "rsync"
FreeText(k, s) ==
    [on |-> TRUE, tool |-> Tool(k), server |-> s, host |-> NoHost, text |-> "plain"]
OnHost(k, h) ==
    [on |-> TRUE, tool |-> Tool(k), server |-> Local, host |-> h, text |-> "plain"]

\* A backslash, here in the name of the log file, is read as something else; a
\* quote ends the string.
MCReads ==
    [x \in Settings \cup Texts |->
        CASE x = "escaped" -> "plain" [] x = "quoted" -> Garbled [] OTHER -> x]

\* A free-text sync comes with the old file; the others have a quote in their options.
MCPayloads ==
    [k \in Kinds |-> IF k = "mount" THEN {FreeText(k, "root@nas"), OnHost(k, "nas")}
                     ELSE {[OnHost(k, "nas") EXCEPT !.text = "quoted"]}]

PlainPayloads == [k \in Kinds |-> {FreeText(k, "root@nas"), OnHost(k, "nas")}]

Named(n, p) ==
    [name |-> n, on |-> p.on, tool |-> p.tool, server |-> p.server, host |-> p.host, text |-> p.text]

\* An old file: free-text remotes, for two users of one server.
OldFile ==
    [settings |-> "plain", hosts |-> <<>>,
     jobs |-> [k \in Kinds |-> IF k = "mount" THEN <<Named("m1", FreeText(k, "root@nas"))>>
                               ELSE <<Named("s1", FreeText(k, "ana@nas"))>>]]

\* A file written by hand: a host of its own, one mount changed, one added.
NewFile ==
    [settings |-> "escaped", hosts |-> <<[name |-> "box", server |-> "ana@nas"]>>,
     jobs |-> [k \in Kinds |-> IF k = "mount"
                               THEN <<Named("m1", FreeText(k, "ana@nas")), Named("m2", OnHost(k, "box"))>>
                               ELSE <<Named("s1", OnHost(k, "box"))>>]]

MCHandEdits == {NewFile}
MCInitialFiles == {Absent, OldFile}

=============================================================================
