-------------------------------- MODULE Launch --------------------------------
(***************************************************************************)
(* How a device starts: the demo program makes C strings of its options    *)
(* and calls the library; the library checks them and parses the lists of  *)
(* services and of p2p ports; what is left is run for ever.                *)
(*                                                                         *)
(* A text is the value its JSON stands for.  Labels and URLs are legal or  *)
(* not; which ones are is left to mac.rs and the url crate.                *)
(***************************************************************************)
EXTENDS Integers, Sequences

CONSTANTS
    Hosts,        \* the values of --server_host
    ProxyTexts,   \* texts of --proxy_list and of its file
    P2pTexts,     \* texts of --p2p_list and of its file
    P2pBuilt      \* the library was built with the feature p2p

\* A text: empty, not the JSON that is asked for, not UTF-8, or a list of objects.
\* An option is a text or absent; a file may also be unreadable.
Text(k, list) == [kind |-> k, list |-> list]
Empty == Text("empty", <<>>)
Garbage == Text("garbage", <<>>)
NotUtf8 == Text("not utf-8", <<>>)
Absent == Text("absent", <<>>)
Unreadable == Text("unreadable", <<>>)
Kinds == {"empty", "garbage", "list"}

ASSUME LaunchAssumption ==
    /\ \A t \in ProxyTexts \cup P2pTexts : t.kind \in Kinds
    /\ P2pBuilt \in BOOLEAN

VARIABLES
    opts,    \* the command line
    launchStage,   \* "demo", "library", "running", "returned" or "crashed"
    call,    \* the C strings passed; p2p is absent in a call of quic_node_run
    code,    \* the value returned
    run      \* what node_run was given

launchVars == <<opts, launchStage, call, code, run>>

Options ==
    [host : Hosts,
     proxy : ProxyTexts \cup {Absent}, proxyFile : ProxyTexts \cup {Absent, Unreadable},
     p2p : P2pTexts \cup {Absent}, p2pFile : P2pTexts \cup {Absent, Unreadable}]

CString(t, ended) == [text |-> t, ended |-> ended]
NoCall == [host |-> "", proxy |-> CString(Absent, TRUE), p2p |-> CString(Absent, TRUE)]
NoRun == [proxy |-> <<>>, p2p |-> <<>>]

LaunchInit ==
    /\ opts \in Options
    /\ launchStage = "demo" /\ call = NoCall /\ code = 0 /\ run = NoRun

(***************************************************************************)
(* The lists.  An object is a record with the fields it has.  A string is  *)
(* a record too, of what the code makes of it; a number stands for itself. *)
(***************************************************************************)
Has(e, f) == f \in DOMAIN e
Str(e, f) == Has(e, f) /\ e[f].type = "string"
AllFields(e, types) == \A f \in DOMAIN e : e[f].type \in types

\* HashMap<&str,&str>, then mac and url, each of them legal.
ProxyEntry(e) ==
    /\ AllFields(e, {"string"})
    /\ Has(e, "mac") /\ e.mac.legal
    /\ Has(e, "url") /\ e.url.legal

U16 == {n \in Nat : n < 65536}

\* HashMap<&str,StringOrInt>, the port a u16.
P2pEntry(e) ==
    /\ AllFields(e, {"string", "int"})
    /\ \A f \in DOMAIN e : e[f].type = "int" => e[f].value \in U16
    /\ Str(e, "mac") /\ e.mac.legal
    /\ Has(e, "port") /\ e.port.type = "int"

ProxyParses(t) == t.kind = "list" /\ \A k \in DOMAIN t.list : ProxyEntry(t.list[k])
P2pParses(t) == t.kind = "list" /\ \A k \in DOMAIN t.list : P2pEntry(t.list[k])

(***************************************************************************)
(* The demo.                                                               *)
(***************************************************************************)

\* unwrap_or evaluates its argument first: the file is read in any case.
ProxyFileRead == opts.proxyFile \notin {Absent, Unreadable}

\* A mistake the code avoids: the file before the option.
ProxyText_FileFirst == opts.proxyFile

ProxyText == IF opts.proxy # Absent THEN opts.proxy ELSE opts.proxyFile

\* A text given as an option is ended with \0; that of a file is not.  A file
\* that cannot be read counts as no p2p list.
P2pArg ==
    IF opts.p2p # Absent THEN CString(opts.p2p, TRUE)
    ELSE IF opts.p2pFile \in {Absent, Unreadable} THEN CString(Absent, TRUE)
    ELSE CString(opts.p2pFile, FALSE)

DemoPanics ==
    /\ launchStage = "demo"
    /\ ~ProxyFileRead \/ (P2pArg.text # Absent /\ ~P2pBuilt)
    /\ launchStage' = "crashed"
    /\ UNCHANGED <<opts, call, code, run>>

DemoCalls ==
    /\ launchStage = "demo"
    /\ ProxyFileRead /\ (P2pArg.text # Absent => P2pBuilt)
    /\ call' = [host |-> opts.host, proxy |-> CString(ProxyText, TRUE), p2p |-> P2pArg]
    /\ launchStage' = "library"
    /\ UNCHANGED <<opts, code, run>>

(***************************************************************************)
(* The library: quic_node_run and p2pclient.                               *)
(***************************************************************************)

\* What CStr::from_ptr makes of an argument.  Without the end, what lies behind
\* the text is read with it: by chance a zero, or anything.
ReadAs(c) == IF c.ended THEN {c.text} ELSE {c.text, Garbage, NotUtf8}

\* The checks in their order, named by the code that is returned.
ProxyChecks == <<-30, -31, -32>>
P2pChecks == <<-33, -34>>

\* A mistake the code avoids: the p2p list looked at first.
Checks_P2pFirst == P2pChecks \o ProxyChecks

Checks == ProxyChecks \o P2pChecks

\* The check with this code finds a fault.
Fault(c, p2p) ==
    \/ c = -30 /\ call.host = ""
    \/ c = -31 /\ call.proxy.text = Empty
    \/ c = -32 /\ ~ProxyParses(call.proxy.text)
    \/ c = -33 /\ p2p = NotUtf8
    \/ c = -34 /\ p2p # Absent /\ ~P2pParses(p2p)

\* The code of the first check that finds a fault, or 0.
Verdict(p2p) ==
    LET found == {k \in DOMAIN Checks : Fault(Checks[k], p2p)}
    IN  IF found = {} THEN 0 ELSE Checks[CHOOSE k \in found : \A j \in found : k <= j]

\* A mistake the code avoids: a check that does not return.
LibraryReturns_GoesOn ==
    /\ launchStage = "library"
    /\ \E p2p \in ReadAs(call.p2p) : Verdict(p2p) # 0 /\ code' = Verdict(p2p)
    /\ launchStage' = "running"
    /\ UNCHANGED <<opts, call, run>>

LibraryReturns ==
    /\ launchStage = "library"
    /\ \E p2p \in ReadAs(call.p2p) : Verdict(p2p) # 0 /\ code' = Verdict(p2p)
    /\ launchStage' = "returned"
    /\ UNCHANGED <<opts, call, run>>

\* The tokio runtime cannot be built.
RuntimeFails ==
    /\ launchStage = "library"
    /\ \E p2p \in ReadAs(call.p2p) : Verdict(p2p) = 0
    /\ code' = -37
    /\ launchStage' = "returned"
    /\ UNCHANGED <<opts, call, run>>

\* From here on node_run is called for ever (Reconnect).
LibraryRuns ==
    /\ launchStage = "library"
    /\ \E p2p \in ReadAs(call.p2p) :
         Verdict(p2p) = 0 /\ run' = [proxy |-> call.proxy.text.list, p2p |-> p2p.list]
    /\ launchStage' = "running"
    /\ UNCHANGED <<opts, call, code>>

\* Reading behind the end of a text leaves the memory of the program.
LibraryCrashes ==
    /\ launchStage = "library" /\ ~call.p2p.ended
    /\ launchStage' = "crashed"
    /\ UNCHANGED <<opts, call, code, run>>

LaunchNext ==
    \/ DemoPanics
    \/ DemoCalls
    \/ LibraryReturns
    \/ RuntimeFails
    \/ LibraryRuns
    \/ LibraryCrashes

LaunchSpec == LaunchInit /\ [][LaunchNext]_launchVars

(***************************************************************************)
(* Properties                                                              *)
(***************************************************************************)
LaunchTypeOK ==
    /\ opts \in Options
    /\ launchStage \in {"demo", "library", "running", "returned", "crashed"}
    /\ code \in {0} \cup -37..-30
    /\ (code # 0) <=> (launchStage = "returned")
    /\ run.proxy \in {<<>>} \cup {t.list : t \in ProxyTexts}
    /\ run.p2p \in {<<>>} \cup {t.list : t \in P2pTexts}

\* What runs is the whole list the user gave, the option before the file, and
\* every entry of it can be used: it has a label, and a URL or a port that a
\* listener can be bound to.  A list with one bad entry does not run in part.
RunsWhatWasGiven ==
    launchStage = "running" =>
        /\ run.proxy = (IF opts.proxy = Absent THEN opts.proxyFile ELSE opts.proxy).list
        /\ opts.p2p # Absent => run.p2p = opts.p2p.list
        /\ \A k \in DOMAIN run.proxy : run.proxy[k].mac.legal /\ run.proxy[k].url.legal
        /\ \A k \in DOMAIN run.p2p : run.p2p[k].mac.legal /\ run.p2p[k].port.value < 65536

\* A bad list is answered with its own code: -31 and -32 are about the list of
\* services, -33 and -34 about the p2p list, and the first is looked at first.
CodeNamesTheList ==
    /\ code \in {-33, -34} => ProxyParses(ProxyText) /\ P2pArg.text # Absent
    /\ code \in {-31, -32} => ~ProxyParses(ProxyText)
    /\ launchStage = "running" /\ opts.p2p # Absent => P2pParses(opts.p2p)
==============================================================================
