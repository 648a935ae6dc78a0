------------------------------ MODULE Domain64 ------------------------------
(***************************************************************************)
(* The number of a name, and the ranges of numbers by which the search     *)
(* pages select names.  A domain64 has a field each for the top-level      *)
(* domain, the domain and the subdomain, and a reserved last field that is *)
(* zero; the sizes of the fields are parameters here (16^6, 16^6 and 16^2  *)
(* in domain64.jsonnet), and a name is the triple of its field values: what *)
(* the names are called is left out.                                       *)
(***************************************************************************)
EXTENDS Integers

CONSTANTS
  TLDs,         \* the top-level domains of constants.json, as their numbers
  Table,        \* the names of domain64.json
  Domains,      \* values of the domain field
  Subdomains,   \* values of the subdomain field
  Reserved      \* values of the last field

\* As the generator asserts: every field fits, and top-level domains are not zero.
Domain64Assumption ==
  /\ Domains \in Nat \ {0} /\ Subdomains \in Nat \ {0, 1} /\ Reserved \in Nat \ {0}
  /\ TLDs \subseteq Nat \ {0}
  /\ Table \subseteq [tld : TLDs, domain : 0..(Domains - 1), sub : 0..(Subdomains - 1)]

ASSUME Domain64Assumptions == Domain64Assumption

\* What a page or a search is about: all of a top-level domain, all of a domain, or
\* one name.  What the table has no name for is given a value of no name in it.
Request ==
  [kind : {"tld", "domain", "sub"}, tld : Nat \ {0}, domain : Nat, sub : Nat]

\* The number with the given fields.
Number(tld, domain, sub) == ((tld * Domains + domain) * Subdomains + sub) * Reserved

Num(n) == Number(n.tld, n.domain, n.sub)

\* The number under which pack stores the pages of every host the table lacks: the
\* error of FQDNToDomain64 is only logged.  (entree refuses such a host; a fetch job
\* that admin was asked for does not pass entree.)
Unlisted == [tld |-> 0, domain |-> 0, sub |-> 0]

\* What rows can belong to.
Stored == Table \cup {Unlisted}

\* config.GetTLD: zero if there is none.
GetTLD(t) == IF t \in TLDs THEN t ELSE 0

\* RDomainToDomain64 finds the domain; otherwise its hex string is empty, and the
\* digits that are put behind it are all there is.
HasDomain(q) == \E n \in Table : n.tld = q.tld /\ n.domain = q.domain

\* FQDNToDomain64 finds the name; otherwise it is zero.
HasName(q) == \E n \in Table : n.tld = q.tld /\ n.domain = q.domain /\ n.sub = q.sub

\* Seeded fault: the range of a domain begins after the domain itself.
AfterDomain(q) == Number(q.tld, q.domain, 1)

AtDomain(q) == Number(q.tld, q.domain, 0)

D64Start(q) ==
  CASE q.kind = "tld"    -> Number(GetTLD(q.tld), 0, 0)
    [] q.kind = "domain" -> IF HasDomain(q) THEN AtDomain(q) ELSE 0
    [] q.kind = "sub"    -> IF HasName(q) THEN Number(q.tld, q.domain, q.sub) ELSE 0

D64End(q) ==
  CASE q.kind = "tld"    -> Number(GetTLD(q.tld), Domains - 1, Subdomains - 1)
    [] q.kind = "domain" -> IF HasDomain(q) THEN Number(q.tld, q.domain, Subdomains - 1)
                                            ELSE Number(0, 0, Subdomains - 1)
    [] q.kind = "sub"    -> D64Start(q) + 1

\* The names with rows in the range, as the queries select: the end is excluded.
InRange(start, end) == {n \in Stored : start <= Num(n) /\ Num(n) < end}

\* The names a request is about.
Below(q) ==
  {n \in Table : /\ n.tld = q.tld
                 /\ q.kind # "tld" => n.domain = q.domain
                 /\ q.kind = "sub" => n.sub = q.sub}

\* The one number per domain, or per top-level domain, at which its range ends.  The
\* generator lets a name have it.
AtTheEnd(q) ==
  {n \in Table : /\ n.sub = Subdomains - 1
                 /\ q.kind # "sub"
                 /\ q.kind = "tld" => n.domain = Domains - 1}

\* A search for what nobody has begins at zero, where the pages of the unlisted hosts are.
AtZero(q) ==
  {n \in {Unlisted} : CASE q.kind = "tld"    -> q.tld \notin TLDs
                        [] q.kind = "domain" -> ~HasDomain(q)
                        [] q.kind = "sub"    -> ~HasName(q)}

=============================================================================
