------------------------------ MODULE MCServe ------------------------------
(* A small instance of Serve for TLC.                                      *)
EXTENDS Serve, TLC

\* Fields of two and three values.  Two top-level domains; a domain with its own name
\* and one at the very end; a domain that ends its top-level domain.
MCTable ==
  {[tld |-> 1, domain |-> 0, sub |-> 0], [tld |-> 1, domain |-> 0, sub |-> 2],
   [tld |-> 1, domain |-> 1, sub |-> 1], [tld |-> 1, domain |-> 1, sub |-> 2],
   [tld |-> 2, domain |-> 0, sub |-> 0], [tld |-> 2, domain |-> 0, sub |-> 1]}

\* Requests of the three kinds, and for what nobody has.
All == [kind |-> "tld", tld |-> 1, domain |-> 0, sub |-> 0]
Nowhere == [kind |-> "tld", tld |-> 3, domain |-> 0, sub |-> 0]
Agency == [kind |-> "domain", tld |-> 1, domain |-> 0, sub |-> 0]
NoAgency == [kind |-> "domain", tld |-> 2, domain |-> 1, sub |-> 0]
Office == [kind |-> "sub", tld |-> 2, domain |-> 0, sub |-> 1]
NoOffice == [kind |-> "sub", tld |-> 2, domain |-> 0, sub |-> 2]

\* The same thing twice, or two things that select different names.
MCAsking ==
  {[v \in Visit |-> IF v = "first" THEN pair[1] ELSE pair[2]] :
     pair \in {<<Agency, Agency>>, <<All, NoAgency>>, <<Office, Nowhere>>, <<Agency, NoOffice>>}}
=============================================================================
