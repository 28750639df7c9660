------------------------------ MODULE MCClients ------------------------------
(* Clients on small instances. *)
EXTENDS Clients

\* Made two at a time, so that rows share a createdAt; the pages of two sites in
\* turn.
AuditColumns == [createdAt |-> [n \in 1 .. MaxRow |-> (n + 1) \div 2],
                 url |-> [n \in 1 .. MaxRow |-> n % 2]]

\* By a column that changes, by ones that do not, by one that is not allowed.
AuditSorts == [field : {"status", "createdAt"}, desc : BOOLEAN]
              \union [field : {"url", "error"}, desc : {FALSE}]
AuditFields == {"createdAt", "url", "status"}

FairSpec == ClientsSpec /\ Exchange!Fairness
=============================================================================
