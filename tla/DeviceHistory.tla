---------------------------- MODULE DeviceHistory ----------------------------
(***************************************************************************)
(* What the app says of a device over several reports: the comparison with   *)
(* an earlier report, names taken from one and devices seen only there       *)
(* (enrich_details in src/app/jobs/enrichment.py, src/app/profiling/         *)
(* history.py), and the device inventory with its household labels           *)
(* (src/app/storage/device_inventory.py).                                    *)
(*                                                                           *)
(* A device has no identity of its own.  Reports are matched by the address  *)
(* of its network adapter, which can be missing, copied or seen twice in one *)
(* report.  Scans overlap, the clock can be set back, and reports are removed *)
(* and restored between the steps of a comparison.                          *)
(***************************************************************************)
EXTENDS Naturals, FiniteSets

CONSTANTS
    MaxJobs,     \* max_concurrent_scans
    MaxReports,  \* bound: reports, numbered in the order of their identifiers
    Findings,    \* bound: when a scan is created, in days, and what it finds
    NoMac,       \* no address, or one that identifies nothing
    Absent,      \* nothing at an address
    Week,        \* timedelta(days=7)
    Recent,      \* the ten reports a comparison loads
    MaxRead,     \* MAX_REPORTS of the inventory
    MaxRemovals, MaxEdits  \* bounds: removals, edits of labels

ASSUME WindowAssumption == Week \in Nat /\ Recent \in Nat /\ MaxRead \in Nat
ASSUME LimitsAssumption == MaxReports \in Nat /\ MaxRemovals \in Nat
ASSUME FindingsAssumption == \A c \in Findings : c.day \in Nat /\ IsFiniteSet(DOMAIN c.at)

VARIABLES
    report,     \* the reports
    found,      \* the reports of the page of list_scans a comparison has still to load
    loaded,     \* those it has loaded, and whether they were finished then
    labels,     \* device-labels.json: the labelled keys
    revision,   \* and its revision
    heard,      \* history: names that a device itself gave, and when
    meant,      \* history: the adapter, or the one sighting, a label was given to
    removals

historyVars == <<report, found, loaded, labels, revision, heard, meant, removals>>

Ids == 1 .. MaxReports

\* What is seen at an address is a device, or a target whose checks did not finish
\* (then there is no more than its discovery address).  A report keeps since when
\* it knows the name of a device, and whether the device gave it directly.
Ips(r) == {a \in DOMAIN report[r].content.at : report[r].content.at[a] # Absent}

At(r, a) == report[r].content.at[a]

Devices(r) == {a \in Ips(r) : At(r, a).device}

OpenPorts(r, a) == At(r, a).open

\* complete: the checks of the target have status completed.
Complete(r, a) == At(r, a).complete

Mac(r, a) == At(r, a).mac

\* How often the address of the adapter is in the devices of a report.
Seen(r, m) == {a \in Devices(r) : Mac(r, a) = m}

Later(r, s) == report[r].day > report[s].day \/ (report[r].day = report[s].day /\ r > s)

Newest(S, n) == {r \in S : Cardinality({s \in S : Later(s, r)}) < n}

Saved == {r \in Ids : report[r].state \in {"running", "finished"}}

Finished == {r \in Ids : report[r].state = "finished"}

NoName == [given |-> FALSE, since |-> 0, direct |-> FALSE]

NotCompared == [status |-> "none", from |-> 0, added |-> {}, gone |-> {}]

-----------------------------------------------------------------------------
(* compare_history *)

\* What is compared: the first ten of the page's reports that could be loaded, those
\* among them that were finished when they were.
Basis(r) ==
    LET first == Newest({l.id : l \in loaded[r]}, Recent)
    IN  {l.id : l \in {l \in loaded[r] : l.finished /\ l.id \in first}}

\* The earlier reports of the network.
Previous(r, page) ==
    {p \in page :
        /\ p # r
        /\ report[p].day < report[r].day
        /\ report[p].content.network = report[r].content.network}

Matches(r, a, page) ==
    {p \in Previous(r, page) : Mac(r, a) # NoMac /\ Seen(p, Mac(r, a)) # {}}

\* Mutant: only the report that is compared is looked at for a repeated address.
AmbiguousInLast(r, a, page) ==
    Mac(r, a) # NoMac
        /\ \E p \in Newest(Matches(r, a, page), 1) : Cardinality(Seen(p, Mac(r, a))) > 1

\* An address that is repeated now or in any of the matches identifies nothing.
Ambiguous(r, a, page) ==
    /\ Mac(r, a) # NoMac
    /\ \/ Cardinality(Seen(r, Mac(r, a))) > 1
       \/ \E p \in Matches(r, a, page) : Cardinality(Seen(p, Mac(r, a))) > 1

Match(p, m) == CHOOSE a \in Seen(p, m) : TRUE

Comparison(r, a, page) ==
    LET last == Newest(Matches(r, a, page), 1)
    IN  IF Ambiguous(r, a, page) \/ last = {} THEN NotCompared
        ELSE LET p == CHOOSE p \in last : TRUE
                 b == Match(p, Mac(r, a))
             IN  IF /\ report[p].content.profile = report[r].content.profile
                    /\ Complete(r, a) /\ Complete(p, b)
                   THEN [status |-> "available", from |-> p,
                         added |-> OpenPorts(r, a) \ OpenPorts(p, b),
                         gone |-> OpenPorts(p, b) \ OpenPorts(r, a)]
                   ELSE [NotCompared EXCEPT !.status = "matched", !.from = p]

\* Mutant: a name is as old as the report it is taken from.
ObservedWithReport(p, b) == report[p].day

\* hostname_observed_at
Observed(p, b) == report[p].name[b].since

Usable(r, p, b) ==
    /\ report[p].name[b].given /\ report[p].name[b].direct
    /\ Observed(p, b) <= report[r].day /\ report[r].day - Observed(p, b) <= Week

\* restore_previous_name: the newest match with a recent name of its own.
NameFor(r, a, page) ==
    LET named == {p \in Matches(r, a, page) : Usable(r, p, Match(p, Mac(r, a)))}
    IN  IF report[r].name[a].given \/ Ambiguous(r, a, page) \/ named = {} THEN report[r].name[a]
        ELSE LET p == CHOOSE p \in Newest(named, 1) : TRUE
             IN  [given |-> TRUE, direct |-> FALSE,
                  since |-> report[p].name[Match(p, Mac(r, a))].since]

-----------------------------------------------------------------------------
(* earlier_observations *)

Comparable(r, p) ==
    /\ p # r
    /\ report[p].content.network = report[r].content.network
    /\ report[p].content.profile = report[r].content.profile
    /\ report[p].day <= report[r].day /\ report[r].day - report[p].day <= Week

\* Devices of the last such report that were completed, are told apart by their
\* adapter, and neither whose adapter nor whose address was seen this time.
Earlier(r, page) ==
    IF report[r].content.profile # "light" THEN {}
    ELSE UNION {{<<p, b>> : b \in {b \in Devices(p) :
                    /\ Mac(p, b) # NoMac /\ Seen(r, Mac(p, b)) = {}
                    /\ b \notin Ips(r)
                    /\ Complete(p, b)
                    /\ Cardinality(Seen(p, Mac(p, b))) = 1}} :
                p \in Newest({p \in page : Comparable(r, p)}, 1)}

-----------------------------------------------------------------------------
(* DeviceInventory._facts *)

Read == Newest(Finished, MaxRead)

\* Mutant: only devices count, not what discovery alone saw.
CountedDevices(r, m) == Seen(r, m)

\* mac_counts, with the targets whose checks did not finish.
Counted(r, m) == {a \in Ips(r) : Mac(r, a) = m}

\* device_key: the adapter in its network, or this one sighting.
Key(r, a) ==
    IF At(r, a).device /\ Mac(r, a) # NoMac /\ Cardinality(Counted(r, Mac(r, a))) = 1
      THEN <<"mac", report[r].content.network, Mac(r, a)>>
      ELSE <<"seen", r, a>>

Occurrences(k) == {o \in UNION {{<<r, a>> : a \in Ips(r)} : r \in Read} : Key(o[1], o[2]) = k}

Keys == UNION {{Key(r, a) : a \in Ips(r)} : r \in Read}

-----------------------------------------------------------------------------

NoReport == [state |-> "none"]

HistoryInit ==
    /\ report = [r \in Ids |-> NoReport]
    /\ found = [r \in Ids |-> {}] /\ loaded = [r \in Ids |-> {}]
    /\ labels = {} /\ revision = 1
    /\ heard = {} /\ meant = {}
    /\ removals = 0

\* A scan has come as far as enrich_details.
Scan(r, c) ==
    /\ Cardinality({s \in Ids : report[s].state = "running"}) < MaxJobs
    /\ report[r].state = "none" /\ \A s \in 1 .. r - 1 : report[s].state # "none"
    /\ report' = [report EXCEPT ![r] =
         [state |-> "running", step |-> "list", day |-> c.day, content |-> c,
          name |-> [a \in DOMAIN c.at |->
                      IF c.at[a] # Absent /\ c.at[a].name /\ c.at[a].lag <= c.day
                        THEN [given |-> TRUE, direct |-> TRUE, since |-> c.day - c.at[a].lag]
                        ELSE NoName],
          compared |-> [a \in DOMAIN c.at |-> NotCompared], earlier |-> {}]]
    /\ heard' = heard \cup {[mac |-> c.at[a].mac, day |-> c.day - c.at[a].lag] :
                              a \in {a \in DOMAIN c.at :
                                       c.at[a] # Absent /\ c.at[a].name /\ c.at[a].lag <= c.day}}
    /\ UNCHANGED <<found, loaded, labels, revision, meant, removals>>

\* store.list_scans: the newest, this one among them.
List(r) ==
    /\ report[r].state = "running" /\ report[r].step = "list"
    /\ found' = [found EXCEPT ![r] = Newest(Saved, Recent + 1) \ {r}]
    /\ report' = [report EXCEPT ![r].step = "load"]
    /\ UNCHANGED <<loaded, labels, revision, heard, meant, removals>>

\* The reports of the page are loaded one after the other; one that is gone or cannot
\* be read is left out.  One that has finished may be at its AI phase again.
LoadReport(r) ==
    /\ report[r].state = "running" /\ report[r].step = "load"
    /\ \E p \in Newest(found[r], 1) :
          /\ found' = [found EXCEPT ![r] = @ \ {p}]
          /\ \/ UNCHANGED loaded
             \/ \E now \in BOOLEAN :
                   /\ p \in Saved /\ (now => p \in Finished)
                   /\ loaded' = [loaded EXCEPT ![r] = @ \cup {[id |-> p, finished |-> now]}]
    /\ UNCHANGED <<report, labels, revision, heard, meant, removals>>

\* update_scan saves what was made of the reports as they were loaded.
Compare(r) ==
    /\ report[r].state = "running" /\ report[r].step = "load" /\ found[r] = {}
    /\ report' = [report EXCEPT
         ![r].step = "done",
         ![r].compared = [a \in DOMAIN report[r].content.at |->
                            IF a \in Devices(r) THEN Comparison(r, a, Basis(r)) ELSE NotCompared],
         ![r].name = [a \in DOMAIN report[r].content.at |->
                        IF a \in Devices(r) THEN NameFor(r, a, Basis(r)) ELSE report[r].name[a]],
         ![r].earlier = Earlier(r, Basis(r))]
    /\ loaded' = [loaded EXCEPT ![r] = {}]
    /\ UNCHANGED <<found, labels, revision, heard, meant, removals>>

\* The scan ends, also before the comparison or when that ran out of time.
Finish(r) ==
    /\ report[r].state = "running"
    /\ report' = [report EXCEPT ![r].state = "finished", ![r].step = "done"]
    /\ found' = [found EXCEPT ![r] = {}] /\ loaded' = [loaded EXCEPT ![r] = {}]
    /\ UNCHANGED <<labels, revision, heard, meant, removals>>

Remove(r) ==
    /\ report[r].state = "finished" /\ removals < MaxRemovals
    /\ removals' = removals + 1
    /\ report' = [report EXCEPT ![r].state = "trash"]
    /\ UNCHANGED <<found, loaded, labels, revision, heard, meant>>

Restore(r) ==
    /\ report[r].state = "trash"
    /\ report' = [report EXCEPT ![r].state = "finished"]
    /\ UNCHANGED <<found, loaded, labels, revision, heard, meant, removals>>

\* What the sightings of an entry have in common.
Meaning(k) == [key |-> k, macs |-> {Mac(o[1], o[2]) : o \in Occurrences(k)}]

\* DeviceInventory.update of a caller that knows the revision, for a device that
\* is in the inventory now: a label is set, or cleared.  Any other is refused.
Label(k) ==
    /\ revision <= MaxEdits
    /\ k \in Keys
    /\ revision' = revision + 1
    /\ \/ labels' = labels \cup {k}
          /\ meant' = {m \in meant : m.key # k} \cup {Meaning(k)}
       \/ k \in labels /\ labels' = labels \ {k} /\ meant' = {m \in meant : m.key # k}
    /\ UNCHANGED <<report, found, loaded, heard, removals>>

HistoryNext ==
    \/ \E r \in Ids, c \in Findings : Scan(r, c)
    \/ \E r \in Ids : List(r) \/ LoadReport(r) \/ Compare(r) \/ Finish(r) \/ Remove(r) \/ Restore(r)
    \/ \E k \in Keys : Label(k)

HistorySpec == HistoryInit /\ [][HistoryNext]_historyVars

-----------------------------------------------------------------------------

\* A name that a report takes from an earlier one was given by a device with the
\* same adapter at most a week before: passing it on from report to report does
\* not make it younger, whatever the clock does.
RestoredNameIsRecent ==
    \A r \in Saved : \A a \in Devices(r) :
        report[r].name[a].given /\ ~report[r].name[a].direct =>
            \E h \in heard : /\ h.mac = Mac(r, a) /\ h.day = report[r].name[a].since
                             /\ h.day <= report[r].day /\ report[r].day - h.day <= Week

\* What is saved of the device at an address of this report fits the reports that
\* were loaded for it, whatever has become of them since.
SavedComparisonFits(r, a) ==
    LET c == report'[r].compared[a]
    IN  c.status = "available" =>
          /\ c.from \in Basis(r) /\ report[c.from].state \notin {"none", "running"}
          /\ report[c.from].day < report[r].day
          /\ \E b \in Devices(c.from) :
                /\ Mac(c.from, b) = Mac(r, a)
                /\ Complete(c.from, b) /\ Complete(r, a)
                /\ c.added \cap OpenPorts(c.from, b) = {} /\ c.gone \cap OpenPorts(r, a) = {}
                /\ (OpenPorts(c.from, b) \cup c.added) \ c.gone = OpenPorts(r, a)
          /\ \A p \in Basis(r) :
                report[p].day < report[r].day
                  /\ report[p].content.network = report[r].content.network =>
                     Cardinality(Seen(p, Mac(r, a))) <= 1
          /\ \A e \in report'[r].earlier : Mac(e[1], e[2]) # Mac(r, a)

ComparisonIsSaved(r) ==
    /\ report[r].state = "running" /\ report[r].step = "load"
    /\ report'[r].state = "running" /\ report'[r].step = "done"

\* A saved comparison tells what changed between two completed, alike checks of
\* one adapter, the later of them this one and the other of a scan that had
\* finished when it was loaded, also when it was removed, restored or finished
\* since; none of the reports that were loaded has the adapter twice; and the
\* report never shows the same adapter as not matched this time.
ComparisonIsSound ==
    [][ \A r \in Ids :
           ComparisonIsSaved(r) => \A a \in Devices(r) : SavedComparisonFits(r, a) ]_historyVars

\* A label stays with what it was given to: the devices it is shown on later
\* have the same adapter, and no report of theirs saw that adapter twice, be
\* it as a device or in discovery alone.
LabelFollowsAdapter ==
    \A m \in meant : m.key \in labels =>
        \A o \in Occurrences(m.key) :
            /\ Mac(o[1], o[2]) \in m.macs
            /\ \/ Occurrences(m.key) = {o}
               \/ Cardinality({a \in Ips(o[1]) : Mac(o[1], a) = Mac(o[1], o[2])}) = 1

=============================================================================
