----------------------------- MODULE OutputPanel -----------------------------
(***************************************************************************)
(* The panel of command outputs, its tabs, the dialogs of commands that    *)
(* need input, and the keys (web-ui/src/App.tsx, CommandOutputsPanel.tsx,  *)
(* hooks/useKeyboardShortcuts.ts).  The view of a result is chosen by the  *)
(* title of the last command, the result may be of an earlier one.         *)
(* Requests and sockets are those of CommandConsole: here one request is   *)
(* out at a time, and a stream may be started at any time.                 *)
(***************************************************************************)
EXTENDS Naturals, FiniteSets, Sequences, ResultViews

CONSTANTS
    TabHosts,   \* hosts that have results
    NoTab       \* no host: selectedOutputHost is null

ASSUME TabsAssumption == IsFiniteSet(TabHosts) /\ NoTab \notin TabHosts

VARIABLES
    lastCommand,            \* the title
    outputData,             \* the command it is of, and the hosts in order
    selectedOutputHost,     \* the tab
    asked,                  \* the command without an answer; statusLoading when there is one
    dialogs,                \* showQueryDNSModal, showPprofModal
    showRawJson

panelVars == <<lastCommand, outputData, selectedOutputHost, asked, dialogs, showRawJson>>

Streams == {"Logs", "BusEvents"}
Dialogs == {"QueryDNS", "Pprof"}
NoCommand == "none"

\* The hosts of an answer, in the order in which they came.
TabLists == {s \in UNION {[1..n -> TabHosts] : n \in 0..Cardinality(TabHosts)} :
                \A i, j \in DOMAIN s : s[i] = s[j] => i = j}

Tabs == {outputData.tabs[i] : i \in DOMAIN outputData.tabs}

PanelInit ==
    /\ lastCommand = NoCommand /\ outputData = [of |-> NoCommand, tabs |-> <<>>]
    /\ selectedOutputHost = NoTab /\ asked = NoCommand
    /\ dialogs = {} /\ showRawJson = FALSE

-----------------------------------------------------------------------------
(* Commands                                                                *)

\* DNS queries and profiles are asked for in their dialogs, goroutines in that of profiles,
\* which then closes at once.
Give(c) ==
    /\ asked = NoCommand /\ c \in Titles \ Streams
    /\ c = "QueryDNS" => "QueryDNS" \in dialogs
    /\ c \in {"Pprof", "Goroutines"} => "Pprof" \in dialogs
    /\ lastCommand' = c
    /\ dialogs' = IF c = "Goroutines" THEN dialogs \ {"Pprof"} ELSE dialogs
    /\ UNCHANGED <<outputData, selectedOutputHost, showRawJson>>

Request(c) == Give(c) /\ asked' = c

\* No selected host is online; a ping is sent all the same, of nothing.
NobodyOnline(c) == c # "Ping" /\ Give(c) /\ UNCHANGED asked

\* An answer leaves the tab that was chosen.
ShowOnTab(c, tabs) ==
    /\ outputData' = [of |-> c, tabs |-> tabs]
    /\ UNCHANGED selectedOutputHost

\* setOutputData, and the first host as the tab if there is one.
Show(c, tabs) ==
    /\ outputData' = [of |-> c, tabs |-> tabs]
    /\ selectedOutputHost' = IF tabs = <<>> THEN selectedOutputHost ELSE tabs[1]

\* An answer that is no list is one of no hosts.  The dialog of the command closes.
AnswerCame(tabs) ==
    /\ asked # NoCommand /\ asked' = NoCommand
    /\ asked = "Pprof" => tabs # <<>>
    /\ Show(asked, tabs)
    /\ dialogs' = dialogs \ {asked}
    /\ UNCHANGED <<lastCommand, showRawJson>>

\* Every command that fails leaves the output as it is.
FailedAny ==
    /\ asked # NoCommand /\ asked' = NoCommand
    /\ UNCHANGED <<lastCommand, outputData, selectedOutputHost, dialogs, showRawJson>>

\* A ping that fails has the errors for its answer.
AnswerFailed ==
    /\ asked \notin {NoCommand, "Ping"} /\ asked' = NoCommand
    /\ UNCHANGED <<lastCommand, outputData, selectedOutputHost, dialogs, showRawJson>>

\* The tabs are the hosts the stream is to have; the command that waits goes on waiting.
Stream(c, tabs) ==
    /\ c \in Streams /\ tabs # <<>>
    /\ lastCommand' = c /\ Show(c, tabs)
    /\ UNCHANGED <<asked, dialogs, showRawJson>>

-----------------------------------------------------------------------------
(* Dialogs, tabs and keys                                                  *)

\* The buttons are off while a command waits.
OpenDialog(k) ==
    /\ asked = NoCommand /\ dialogs' = dialogs \union {k}
    /\ UNCHANGED <<lastCommand, outputData, selectedOutputHost, asked, showRawJson>>

CloseDialog(k) ==
    /\ k \in dialogs /\ dialogs' = dialogs \ {k}
    /\ UNCHANGED <<lastCommand, outputData, selectedOutputHost, asked, showRawJson>>

\* Escape, also in an input field.
HandleEscapeKey ==
    /\ dialogs' = {}
    /\ UNCHANGED <<lastCommand, outputData, selectedOutputHost, asked, showRawJson>>

ClickTab(h) ==
    /\ h \in Tabs /\ selectedOutputHost' = h
    /\ UNCHANGED <<lastCommand, outputData, asked, dialogs, showRawJson>>

\* indexOf, which is -1 for a host without a tab; the positions of a tuple begin with 1.
TabIndex ==
    IF selectedOutputHost \in Tabs
    THEN CHOOSE i \in 0..Len(outputData.tabs) - 1 : outputData.tabs[i + 1] = selectedOutputHost
    ELSE 0 - 1

\* A dialog keeps the keys to itself; so does an input field.
KeysHeard == dialogs = {}

\* Tab and Shift-Tab.
HandleTabKey(shift) ==
    LET n == Len(outputData.tabs)
        next == IF shift THEN (TabIndex - 1 + n) % n ELSE (TabIndex + 1) % n
    IN /\ KeysHeard /\ n > 1 /\ selectedOutputHost # NoTab
       /\ selectedOutputHost' = outputData.tabs[next + 1]
       /\ UNCHANGED <<lastCommand, outputData, asked, dialogs, showRawJson>>

ToggleRawJson ==
    /\ showRawJson' = ~showRawJson
    /\ UNCHANGED <<lastCommand, outputData, selectedOutputHost, asked, dialogs>>

-----------------------------------------------------------------------------
PanelNext ==
    \/ \E c \in Titles : Request(c) \/ NobodyOnline(c)
    \/ \E tabs \in TabLists : AnswerCame(tabs) \/ \E c \in Streams : Stream(c, tabs)
    \/ AnswerFailed
    \/ \E k \in Dialogs : OpenDialog(k) \/ CloseDialog(k)
    \/ HandleEscapeKey
    \/ \E h \in Tabs : ClickTab(h)
    \/ \E shift \in BOOLEAN : HandleTabKey(shift)
    \/ ToggleRawJson

PanelSpec == PanelInit /\ [][PanelNext]_panelVars

-----------------------------------------------------------------------------
(* Properties                                                              *)

\* Pairs of a title and a command some result of which the title's view throws on, and
\* commands some result of which their own view shows nothing of.
Crashing ==
    {p \in Titles \X Titles : \E d \in ResultsOf(p[2]) : "crash" \in Content(p[1], d)}

Silent == {c \in Titles : \E d \in ResultsOf(c) : Content(c, d) = {}}

PanelTypeOK ==
    /\ lastCommand \in Titles \union {NoCommand}
    /\ outputData \in [of : Titles \union {NoCommand}, tabs : TabLists]
    /\ selectedOutputHost \in TabHosts \union {NoTab}
    /\ asked \in (Titles \ Streams) \union {NoCommand}
    /\ dialogs \subseteq Dialogs /\ showRawJson \in BOOLEAN

\* As soon as there are tabs one of them is chosen, and it is one of this output: an answer
\* that comes late, or for other hosts, does not leave the panel on a host that is gone.
TabShown == outputData.tabs # <<>> => selectedOutputHost \in Tabs

\* The title is that of the command that waits, unless a stream took it since; and that of a
\* ping is over its results.
Titled ==
    /\ asked # NoCommand => lastCommand \in {asked} \union Streams
    /\ asked = NoCommand /\ lastCommand = "Ping" => outputData.of = "Ping"

\* The view of the last command can show what is in the output, though that may be of an
\* earlier command; and of its own result it says something.
ViewFits ==
    asked = NoCommand /\ outputData.tabs # <<>> =>
        /\ <<lastCommand, outputData.of>> \notin Crashing
        /\ lastCommand = outputData.of => lastCommand \notin Silent

\* The panel shows one of its tabs, and in it a view that can show what is there: a command
\* that fails, or is overtaken, changes the title and so the view of another's result, and
\* a ping's view would take every field of that for a peer.
PanelInv == PanelTypeOK /\ TabShown /\ Titled /\ ViewFits
=============================================================================
