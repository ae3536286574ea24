---------------------------- MODULE MC_OssBucket ----------------------------
EXTENDS OssBucket, TLC

CONSTANTS d1, d2

MCData == {d1, d2}
MCFileParts == <<d1, d2, d1, d2>>

(* Keys "a", "d/x", "d/y" and "object": the two in the middle roll up    *)
(* into the common prefix "d/" under the delimiter "/".                  *)
MCDirOf == <<0, 1, 1, 0>>

MCIntMax == 2147483647

(* One rule that expires by days, one that expires on a date. *)
MCCallerRules ==
    << [NewRule EXCEPT !.id = "r1", !.prefix = "log/", !.status = "Enabled", !.days = 3],
       [NewRule EXCEPT !.id = "r2", !.prefix = "tmp/", !.status = "Disabled",
                       !.date = "2017-01-01T00:00:00.000Z"] >>
=============================================================================
