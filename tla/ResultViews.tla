----------------------------- MODULE ResultViews -----------------------------
(***************************************************************************)
(* What the panel shows of a host's result                                 *)
(* (web-ui/src/components/CommandOutputsPanel.tsx, PprofViewer.tsx).       *)
(* A result is JSON that the page passes on as it came; a view looks for   *)
(* the fields it knows and shows a piece for each it finds.  A view that   *)
(* handles a field as what it is not throws, and takes the page with it.   *)
(*                                                                         *)
(* A result is a function from its fields to what is in them: "text",      *)
(* "list" or "map", "nolist" or "nomap" when empty, and "absent" also for  *)
(* what JavaScript takes for false.  Of a text that is the whole result    *)
(* the field is "string", of results by peer "peer".                       *)
(***************************************************************************)

Lists == {"absent", "nolist", "list"}
Maps == {"absent", "nomap", "map"}
Texts == {"absent", "text"}
Parts == {"absent", "map"}

Titles == {"Status", "Ping", "QueryDNS", "Pprof", "Goroutines", "Prefs", "DriveShares",
           "DNSConfig", "ServeConfig", "AppConnRoutes", "Logs", "BusEvents"}

\* The results of a command without an error, which the panel shows itself.  There is none
\* of the shares: the adapter's conversion to a map (StructToMap, types.go:58-69) panics on
\* a list, so the web UI has an error for every host.
ResultsOf(command) ==
    CASE command = "Status" -> [Version : Texts, CertDomains : Lists, Health : Lists,
                                Self : Parts, User : Maps, Peer : Maps]
      [] command = "Ping" -> [peer : Lists \union {"map"}] \union [{} -> Lists]
      [] command = "QueryDNS" -> [header : {"map"}, responses : Lists, resolvers : Lists]
      [] command = "Pprof" -> [data : {"map"}, hostname : {"text"}, pprofType : {"text"}]
      [] command = "Goroutines" -> [string : {"text"}]
      [] command = "Prefs" -> [Hostname : Texts, ControlURL : Texts, AdvertiseRoutes : Lists,
                               AdvertiseTags : Lists, Persist : Parts]
      [] command = "DriveShares" -> {}
      [] command = "DNSConfig" -> [Nameservers : Lists, SearchDomains : Lists, MatchDomains : Lists]
      [] command = "ServeConfig" -> [TCP : Maps, Web : Maps, Services : Maps, AllowFunnel : Maps,
                                     Foreground : Maps, ETag : Texts]
      [] command = "AppConnRoutes" -> [Control : Lists, Wildcards : Lists, Domains : Maps]
      [] command \in {"Logs", "BusEvents"} -> [streaming : {"flag"}]

-----------------------------------------------------------------------------
(* How views read a field                                                  *)

In(d, f) == IF f \in DOMAIN d THEN d[f] ELSE "absent"

\* A part of its own if there is something in it.
Section(d, f) == IF In(d, f) = "absent" THEN {} ELSE {f}

\* x && x.length > 0 && x.map(...): a text has a length, and no map.
Listed(d, f) ==
    CASE In(d, f) = "list" -> {f} [] In(d, f) = "text" -> {"crash"} [] OTHER -> {}

\* Object.keys(x).length > 0
Keyed(d, f) == IF In(d, f) \in {"map", "list", "text"} THEN {f} ELSE {}

\* Put on the page as it is, which an object cannot be.
Written(d, f) == IF In(d, f) \in {"map", "nomap"} THEN {"crash"} ELSE Section(d, f)

\* With a message if there is none of them.
OrNone(pieces) == IF pieces = {} THEN {"none"} ELSE pieces

-----------------------------------------------------------------------------
(* The views                                                               *)

\* Every field is a peer, with a list of results, one error, or no data.
PingResultsContent(d) == OrNone(DOMAIN d)

\* Nothing without the header.
QueryDNSResultsContent(d) ==
    IF In(d, "header") = "absent" THEN {}
    ELSE {"header"} \union Listed(d, "responses") \union Listed(d, "resolvers")

\* PprofViewer
PprofResultsContent(d) == IF In(d, "data") = "absent" THEN {"waiting"} ELSE {"download"}

PrefsResultsContent(d) ==
    {"table"} \union Written(d, "Hostname") \union Written(d, "ControlURL")
        \union Section(d, "Persist") \union Listed(d, "AdvertiseRoutes")
        \union Listed(d, "AdvertiseTags")

\* No shares are a list without any.
DriveSharesResultsContent(d) ==
    CASE In(d, "Shares") \in {"absent", "nolist"} -> {"none"}
      [] In(d, "Shares") = "list" -> {"Shares"}
      [] OTHER -> {"crash"}

DNSConfigResultsContent(d) ==
    OrNone(Listed(d, "Nameservers") \union Listed(d, "SearchDomains") \union Listed(d, "MatchDomains"))

ServeConfigResultsContent(d) ==
    OrNone(UNION {Keyed(d, f) : f \in {"TCP", "Web", "Services", "AllowFunnel", "Foreground"}})
        \union (IF In(d, "ETag") \in {"absent", "text"} THEN Section(d, "ETag") ELSE {"crash"})

\* A domain's addresses are a list.
AppConnRoutesResultsContent(d) ==
    OrNone(Listed(d, "Control") \union Listed(d, "Wildcards") \union
           IF In(d, "Domains") \in {"text", "list"} THEN {"crash"} ELSE Keyed(d, "Domains"))

GoroutinesResultsContent(d) == IF In(d, "string") = "text" THEN {"goroutines"} ELSE {"none"}

\* The lines of the stream, or that there are none yet, whatever the result is.
StreamResultsContent(d) == {"stream"}

StatusResultsContent(d) ==
    {"overview"} \union Listed(d, "CertDomains") \union Listed(d, "Health")
        \union Section(d, "Self") \union Keyed(d, "User") \union Keyed(d, "Peer")

\* The last command given says which view it is.
Content(lastCommand, d) ==
    CASE lastCommand = "Ping" -> PingResultsContent(d)
      [] lastCommand = "QueryDNS" -> QueryDNSResultsContent(d)
      [] lastCommand = "Pprof" -> PprofResultsContent(d)
      [] lastCommand = "Prefs" -> PrefsResultsContent(d)
      [] lastCommand = "DriveShares" -> DriveSharesResultsContent(d)
      [] lastCommand = "DNSConfig" -> DNSConfigResultsContent(d)
      [] lastCommand = "ServeConfig" -> ServeConfigResultsContent(d)
      [] lastCommand = "AppConnRoutes" -> AppConnRoutesResultsContent(d)
      [] lastCommand = "Goroutines" -> GoroutinesResultsContent(d)
      [] lastCommand \in {"Logs", "BusEvents"} -> StreamResultsContent(d)
      [] OTHER -> StatusResultsContent(d)
=============================================================================
