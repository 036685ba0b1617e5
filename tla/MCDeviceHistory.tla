--------------------------- MODULE MCDeviceHistory ---------------------------
(* Small instance of DeviceHistory for TLC. *)
EXTENDS DeviceHistory, TLC

CONSTANTS home, m1, m2, p1, p2

Device(m, open, complete, name, lag) ==
    [device |-> TRUE, mac |-> m, open |-> open, complete |-> complete, name |-> name, lag |-> lag]

Target(m) ==
    [device |-> FALSE, mac |-> m, open |-> {}, complete |-> FALSE, name |-> FALSE, lag |-> 0]

Found(day, profile, a, b) ==
    [day |-> day, network |-> home, profile |-> profile, at |-> (1 :> a @@ 2 :> b)]

\* Alone and named today or the day before, alone at another address, next to an
\* unmatched device, and what makes a match impossible: seen twice, seen in discovery too,
\* not finished, or by another profile.
MCFindings ==
    {Found(1, "light", Device(m1, {p1}, TRUE, TRUE, lag), Absent) : lag \in {0, 1}} \cup
    {Found(d, "light", Absent, Device(m1, {p1, p2}, TRUE, FALSE, 0)) : d \in {1, 2, 3}} \cup
    {Found(d, "light", Device(m2, {p2}, TRUE, TRUE, 0), Absent) : d \in {2, 3}} \cup
    {Found(1, "light", Device(m1, {p1}, TRUE, FALSE, 0), Device(m1, {p2}, TRUE, FALSE, 0)),
     Found(2, "light", Device(m1, {p1}, TRUE, FALSE, 0), Target(m1)),
     Found(2, "light", Device(NoMac, {p1}, TRUE, FALSE, 0), Device(m1, {p2}, FALSE, FALSE, 0)),
     Found(2, "deep", Device(m1, {p1}, TRUE, FALSE, 0), Absent)}

\* Nobody reads what a report tells of a comparison once that is saved, and of a
\* page that is no longer than what is compared those that were not finished are left out.
Kept(r) ==
    IF report[r].state = "none" THEN "none"
    ELSE <<report[r].state, report[r].step, report[r].day, report[r].content, report[r].name>>

Compares(r) ==
    IF MaxReports <= Recent + 1 THEN {l.id : l \in {l \in loaded[r] : l.finished}} ELSE loaded[r]

View ==
    <<[r \in Ids |-> Kept(r)], found, [r \in Ids |-> Compares(r)], labels, revision, heard, meant,
      removals>>

\* Bound: labels are edited where nothing is compared and no name was passed on; neither
\* reads what the other changes.
Apart ==
    revision > 1 =>
        \A r \in Ids : report[r].state # "none" =>
            /\ report[r].step # "load"
            /\ \A a \in Ips(r) : report[r].name[a].given => report[r].name[a].direct

==============================================================================
