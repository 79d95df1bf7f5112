----------------------------- MODULE MCMitigation -----------------------------
(* Two analyses of contracts with clauses of one type or two, and decisions
   that override their risk, approve or reject them. *)
EXTENDS Mitigation, TLC

CONSTANTS a1, a2

MCWords == {"net 60", "indemnify", "defend", "fees", "never", "gdpr", "phi"}
MCLength == [w \in MCWords |-> IF w \in {"gdpr", "phi"} THEN 3 ELSE 5]

D(verdict, content, level, reasons, override) ==
    [type |-> "liability", contract |-> "c1", verdict |-> verdict, content |-> content, level |-> level,
     feedback |-> reasons, override |-> override]
Lower == D("modified", <<>>, "MEDIUM", <<>>, "LOW")
Raise == D("rejected", <<"fees">>, "MEDIUM", <<"never", "never">>, "HIGH")
Fine == D("approved", <<"fees">>, "LOW", <<>>, Nothing)
Odd == [D("approved", Nothing, "LOW", <<>>, Nothing) EXCEPT !.contract = "deleted"]

MCDecisions == {Lower, Raise, Fine, Odd}
MCSubmissions == {<<Lower>>, <<Fine>>, <<Raise, Raise>>, <<Odd, Lower>>}

C(id, type, content) == [id |-> id, type |-> type, content |-> content]
MCContracts ==
    {[clauses |-> <<C("1", "liability", <<"indemnify", "defend", "fees">>), C("2", "liability", <<"never">>)>>,
      violations |-> {}, text |-> <<"gdpr">>],
     [clauses |-> <<C("3", "liability", <<"fees">>), C("4", "payment", <<"net 60">>)>>,
      violations |-> {[clause |-> "3", severity |-> "LOW"], [clause |-> "4", severity |-> "CRITICAL"]},
      text |-> <<"phi">>]}

MCClauseNodes ==
    {[tenant |-> "demo_tenant_1", completed |-> TRUE, type |-> "liability",
      content |-> {"indemnify", "defend", "never"}, risk |-> "HIGH"],
     [tenant |-> "demo_tenant_1", completed |-> FALSE, type |-> "payment", content |-> {"net 60"}, risk |-> "LOW"]}

Symmetry == Permutations(Analyses)
=============================================================================
