--------------------------- MODULE RecordOpenCount ---------------------------
(***************************************************************************)
(* RecordModule with a count, per stream name, of the opens that returned *)
(* minus the closes that returned QTSS_NoErr: the spec's                   *)
(* #Acquire - #Release (spec 4.1 and 8).                                   *)
(***************************************************************************)
EXTENDS RecordModule

CONSTANT NetCap     \* bound: the count saturates here

VARIABLE net

Counted(t) ==
    net' = [n \in Names |->
              IF n # req[t] THEN net[n]
              ELSE IF pc[t] = "open_release" THEN MinOf(net[n] + 1, NetCap)
              ELSE IF pc[t] = "close_check" /\ net[n] > 0 THEN net[n] - 1
              ELSE net[n]]

CountInit == Init /\ net = [n \in Names |-> 0]

CountNext ==
    \/ \E t \in Threads : ThreadStep(t) /\ Counted(t)
    \/ ((\E t \in Threads : Enter(t)) \/ (\E s \in Sessions : Teardown(s) \/ Record(s)))
       /\ UNCHANGED net

CountSpec == CountInit /\ [][CountNext]_<<vars, net>>

(* Spec 8: at any quiescent point a stream's entry is registered exactly *)
(* when more opens than closes have returned for it.                     *)
EntryIffNetOpens ==
    (\A t \in Threads : pc[t] = "idle") =>
        \A n \in Names : net[n] < NetCap =>
            (table[n] # None <=> net[n] > 0)
=============================================================================
