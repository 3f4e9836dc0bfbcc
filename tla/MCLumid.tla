------------------------------ MODULE MCLumid ------------------------------
(* Values for the constants of Lumid that a .cfg cannot write down.        *)
EXTENDS Lumid, TLC

CONSTANTS net, app, tel, log,   \* services
          p1, p2, p3            \* pids

PidSymmetry == Permutations(Pids)

\* app requires net and is ordered after it; tel and log are only ordered
\* after net.
TwoServices   == {net, app}
ThreeServices == {net, app, tel}
FourServices  == {net, app, tel, log}
NeedsNet      == [s \in Services |-> IF s = app THEN {net} ELSE {}]
AfterNet      == [s \in Services |-> IF s = net THEN {} ELSE {net}]

\* readdir gives net, then app; registration prepends, the search places net
\* first.  A SIGHUP later finds tel as well.
AppList     == <<<<app, net>>>>
AppOrder    == <<<<net, app>>>>
GrowList    == <<<<app, net>>, <<tel, app, net>>>>
GrowOrder   == <<<<net, app>>, <<net, tel, app>>>>
\* A SIGHUP finds log, and an array of three has no place for tel any more.
CrowdList   == <<<<app, net, tel>>, <<log, app, net, tel>>>>
CrowdOrder  == <<<<net, app, tel>>, <<net, log, app>>>>
\* app is found by a SIGHUP.
LateList    == <<<<net>>, <<app, net>>>>
LateOrder   == <<<<net>>, <<net, app>>>>
AllResolved == [g \in 1 .. Loads |-> TRUE]

\* tel, found by the SIGHUP, and app depend on each other: the search fails
\* before it has placed anything.
MutualDeps   == [s \in Services |-> IF s = app THEN {tel} ELSE IF s = tel THEN {app} ELSE {}]
CycleOrder   == <<<<net, app>>, <<>>>>
ResolvedOnce == <<TRUE, FALSE>>

Simple      == [s \in Services |-> "SIMPLE"]
Always      == [s \in Services |-> "ALWAYS"]
OnFailure   == [s \in Services |-> "ON_FAILURE"]
MixedPolicy == [s \in Services |-> IF s = net THEN "ALWAYS"
                                   ELSE IF s = app THEN "ON_ABNORMAL" ELSE "NEVER"]
OneRetry    == [s \in Services |-> 1]
MixedRetry  == [s \in Services |-> IF s = net THEN 1 ELSE 0]

Forking     == [s \in Services |-> IF s = app THEN "FORKING" ELSE "SIMPLE"]

Req(c, s)   == [cmd |-> c, svc |-> s]
\* log can be started while it is not loaded yet.
StartStop   == {Req(c, app) : c \in {"START", "STOP"}} \cup {Req("STOP", net), Req("START", log)}
AnyRequest  == {Req(c, s) : c \in {"START", "STOP", "RESTART"}, s \in {net, app}}
                 \cup {Req("STATUS", app), Req("DISABLE", app), Req("ENABLE", app),
                       Req("POWEROFF", NoService), Req("REBOOT", NoService),
                       Req("SILENT", NoService)}
NetRestart  == {Req("RESTART", net)}
NetStop     == {Req("STOP", net)}
NoRequests  == {}
AppStopStart == {Req("START", app), Req("STOP", app), Req("POWEROFF", NoService)}
=============================================================================
