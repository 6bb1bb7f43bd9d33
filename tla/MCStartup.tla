------------------------------ MODULE MCStartup ------------------------------
(* Three starts, two of them of one provider, and the files they may find. *)
EXTENDS Startup, TLC

CONSTANTS s1, s2, s3

Id(provider, key) == [provider |-> provider, key |-> key]

MCIdentity == s1 :> Id("p1", "k1") @@ s2 :> Id("p1", "k1") @@ s3 :> Id("p1", "k2")

Whole(rows) ==
    [kind |-> "database", objects |-> {"store", "audit", "binding"}, rows |-> rows]

Row(column, id) == [column |-> column, sealed |-> id]

MCFiles ==
    {EmptyFile,
     [EmptyFile EXCEPT !.kind = "corrupt"],
     [EmptyFile EXCEPT !.kind = "not-a-file"],
     [EmptyFile EXCEPT !.objects = {"store", "audit"}],
     [EmptyFile EXCEPT !.objects = {"foreign"}],
     [Whole({Row("p1", Id("p1", "k1"))}) EXCEPT !.objects = Objects],
     Whole({}),
     Whole({Row("p1", Id("p1", "k1"))}),
     Whole({Row("p2", Id("p2", "k1"))}),
     Whole({Row("p1", Id("p2", "k1"))})}
=============================================================================
