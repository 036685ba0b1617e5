--------------------------- MODULE MCStartRequests ---------------------------
(* TLC's view of StartRequests: no operation, client or setting is special. *)
EXTENDS StartRequests, TLC

Symmetry == Permutations(Operations) \cup Permutations(Clients) \cup Permutations(Settings)

\* Nothing depends on the last request of an idle client, or on its answer, unless the
\* answer is one the properties are about.
Matters(c) == pc[c] # "idle" \/ answer[c] \in {"accepted"}

\* Of the backup nothing asks but whether it is there.
BackupIsThere == backup # Absent

\* Nor does anything depend on a removal after the start of its report was decided.
MayMatter ==
    {o \in removed : \/ run[o] \in {"accept", "find", "reject"} \/ late[o] = "reject"
                     \/ ReceiptSays(o, "rejected")}

View ==
    <<journal, BackupIsThere, report, scanned, active, started, MayMatter, run, late, pc, receipt, seen,
      admission, mode, requests, troubles, stops,
      [c \in Clients |-> IF Matters(c) THEN <<request[c], answer[c]>> ELSE Nothing]>>

===============================================================================
