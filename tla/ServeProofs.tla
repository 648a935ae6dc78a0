---------------------------- MODULE ServeProofs ----------------------------
(***************************************************************************)
(* Proofs about Domain64 and Serve: a range of numbers selects the names a *)
(* request is about and no others, for every table and every field size;   *)
(* and whatever a page shows was left by a request its own overlapped.     *)
(***************************************************************************)
EXTENDS Serve, TLAPS

-----------------------------------------------------------------------------
(* The order of the numbers is the lexical order of the fields.            *)

LEMMA Scaled ==
  ASSUME NEW M \in Nat \ {0}, NEW a \in Int, NEW c \in Int, a < c
  PROVE  a * M + M <= c * M
<1> DEFINE k == c - a - 1
<1>1. k \in Nat
  OBVIOUS
<1>2. k * M \in Nat
  BY <1>1
<1>3. c * M = a * M + M + k * M
  BY <1>1
<1> QED
  BY <1>2, <1>3

\* Two digits to the base M compare as the higher one does, or as the lower one if the
\* higher are the same.
LEMMA Digits ==
  ASSUME NEW M \in Nat \ {0}, NEW a \in Int, NEW c \in Int,
         NEW b \in 0..(M - 1), NEW d \in 0..(M - 1)
  PROVE  (a * M) + b < (c * M) + d <=> (a < c \/ (a = c /\ b < d))
<1>1. CASE a < c
  BY <1>1, Scaled
<1>2. CASE a = c
  BY <1>2
<1>3. CASE c < a
  <2>1. (c * M) + M <= a * M
    BY <1>3, Scaled
  <2> QED
    BY <1>3, <2>1
<1> QED
  BY <1>1, <1>2, <1>3

LEMMA NumberOrder ==
  ASSUME NEW t \in Nat, NEW d \in 0..(Domains - 1), NEW s \in 0..(Subdomains - 1),
         NEW u \in Nat, NEW e \in 0..(Domains - 1), NEW z \in 0..(Subdomains - 1)
  PROVE  /\ Number(t, d, s) \in Nat
         /\ Number(t, d, s) < Number(u, e, z) <=>
              (t < u \/ (t = u /\ (d < e \/ (d = e /\ s < z))))
<1> DEFINE x == (t * Domains) + d
           y == (u * Domains) + e
           v == (x * Subdomains) + s
           w == (y * Subdomains) + z
<1>1. Domains \in Nat \ {0} /\ Subdomains \in Nat \ {0} /\ Reserved \in Nat \ {0}
  BY Domain64Assumptions DEF Domain64Assumption
<1>2. x \in Nat /\ y \in Nat
  BY <1>1
<1>3. x < y <=> (t < u \/ (t = u /\ d < e))
  BY <1>1, Digits
<1>4. y < x <=> (u < t \/ (t = u /\ e < d))
  BY <1>1, Digits
<1> HIDE DEF x, y
<1>5. v \in Nat /\ w \in Nat
  BY <1>1, <1>2
<1>6. v < w <=> (x < y \/ (x = y /\ s < z))
  BY <1>1, <1>2, Digits
<1>7. Number(t, d, s) = v * Reserved /\ Number(u, e, z) = w * Reserved
  BY DEF Number, x, y
<1> HIDE DEF v, w
<1>8. v * Reserved \in Nat
  BY <1>1, <1>5
<1>9. 0 \in 0..(Reserved - 1)
  BY <1>1
<1>10. (v * Reserved) + 0 < (w * Reserved) + 0 <=> (v < w \/ (v = w /\ 0 < 0))
  BY <1>1, <1>5, <1>9, Digits
<1>11. v * Reserved < w * Reserved <=> v < w
  BY <1>1, <1>5, <1>8, <1>10
<1>12. x = y <=> (t = u /\ d = e)
  BY <1>2, <1>3, <1>4
<1> QED
  BY <1>3, <1>6, <1>7, <1>8, <1>11, <1>12

\* The same of the number of a name.
LEMMA NumOrder ==
  ASSUME NEW n \in Table,
         NEW u \in Nat, NEW e \in 0..(Domains - 1), NEW z \in 0..(Subdomains - 1)
  PROVE  /\ Num(n) \in Nat
         /\ Num(n) < Number(u, e, z) <=>
              (n.tld < u \/ (n.tld = u /\ (n.domain < e \/ (n.domain = e /\ n.sub < z))))
         /\ Number(u, e, z) < Num(n) <=>
              (u < n.tld \/ (u = n.tld /\ (e < n.domain \/ (e = n.domain /\ z < n.sub))))
<1>1. /\ n.tld \in Nat \ {0}
      /\ n.domain \in 0..(Domains - 1)
      /\ n.sub \in 0..(Subdomains - 1)
  BY Domain64Assumptions DEF Domain64Assumption
<1> DEFINE t == n.tld
           d == n.domain
           s == n.sub
<1>2. t \in Nat /\ d \in 0..(Domains - 1) /\ s \in 0..(Subdomains - 1)
  BY <1>1
<1> HIDE DEF t, d, s
<1>3. /\ Number(t, d, s) \in Nat
      /\ Number(t, d, s) < Number(u, e, z) <=>
           (t < u \/ (t = u /\ (d < e \/ (d = e /\ s < z))))
  BY <1>2, NumberOrder, SMTT(30)
<1>4. Number(u, e, z) < Number(t, d, s) <=>
        (u < t \/ (u = t /\ (e < d \/ (e = d /\ z < s))))
  BY <1>2, NumberOrder, SMTT(30)
<1> QED
  BY <1>3, <1>4 DEF Num, t, d, s

-----------------------------------------------------------------------------
(* The ranges.                                                             *)

\* A name of the table is in the range of a request if the request is about it and it is
\* not the last number of the range.
LEMMA TableInRange ==
  ASSUME NEW q \in Request, NEW n \in Table
  PROVE  (D64Start(q) <= Num(n) /\ Num(n) < D64End(q)) <=>
           (n \in Below(q) /\ n \notin AtTheEnd(q))
<1> DEFINE D == Domains - 1
           S == Subdomains - 1
           O == 0
<1>1. /\ q.kind \in {"tld", "domain", "sub"} /\ q.tld \in Nat \ {0}
      /\ q.domain \in Nat /\ q.sub \in Nat
  BY DEF Request
<1>2. /\ O = 0 /\ O \in Nat /\ O \in 0..D /\ D \in 0..D /\ O \in 0..S /\ S \in 0..S
      /\ D \in Nat /\ S \in Nat
  BY Domain64Assumptions DEF Domain64Assumption
<1>3. \A m \in Table : m.tld \in Nat \ {0} /\ m.domain \in 0..D /\ m.sub \in 0..S
  BY Domain64Assumptions DEF Domain64Assumption
<1>4. n.tld \in TLDs
  BY Domain64Assumptions DEF Domain64Assumption
<1>5. n.tld \in Nat \ {0} /\ n.domain \in 0..D /\ n.sub \in 0..S
  BY <1>3
<1>11. Num(n) \in Nat
  BY <1>2, NumOrder
<1>12. \A u \in Nat, e \in 0..D, z \in 0..S : Number(u, e, z) \in Nat
  BY NumberOrder
<1>13. \A u \in Nat, e \in 0..D, z \in 0..S :
         (Num(n) < Number(u, e, z)) <=>
           (n.tld < u \/ (n.tld = u /\ (n.domain < e \/ (n.domain = e /\ n.sub < z))))
  BY NumOrder
<1>14. \A u \in Nat, e \in 0..D, z \in 0..S :
         (Number(u, e, z) < Num(n)) <=>
           (u < n.tld \/ (u = n.tld /\ (e < n.domain \/ (e = n.domain /\ z < n.sub))))
  BY NumOrder
<1>15. n \in Below(q) <=> (n.tld = q.tld /\ (q.kind # "tld" => n.domain = q.domain)
                                         /\ (q.kind = "sub" => n.sub = q.sub))
  BY DEF Below
<1>16. n \in AtTheEnd(q) <=> (n.sub = S /\ q.kind # "sub" /\ (q.kind = "tld" => n.domain = D))
  BY DEF AtTheEnd
<1>17. ~(n.domain < O) /\ ~(n.sub < O) /\ O < n.tld
  BY <1>2, <1>5
<1> HIDE DEF D, S, O
<1>6. CASE q.kind = "tld"
  <2> DEFINE t == GetTLD(q.tld)
  <2>1. t \in Nat /\ (t = n.tld <=> q.tld = n.tld)
    BY <1>1, <1>4, <1>5 DEF GetTLD
  <2>2. D64Start(q) = Number(t, O, O) /\ D64End(q) = Number(t, D, S)
    BY <1>6 DEF D64Start, D64End, D, S, O
  <2> HIDE DEF t
  <2>6. Number(t, O, O) \in Nat
    BY <1>2, <1>12, <2>1
  <2>3. Num(n) < Number(t, O, O) <=> n.tld < t
    <3>1. (Num(n) < Number(t, O, O)) <=>
           (n.tld < t \/ (n.tld = t /\ (n.domain < O \/ (n.domain = O /\ n.sub < O))))
      BY <1>2, <1>13, <2>1
    <3> QED
      BY <1>17, <3>1
  <2>4. Num(n) < Number(t, D, S) <=>
          (n.tld < t \/ (n.tld = t /\ (n.domain < D \/ (n.domain = D /\ n.sub < S))))
    BY <1>2, <1>12, <1>13, <1>14, <2>1
  <2> QED
    BY <1>2, <1>5, <1>6, <1>11, <1>15, <1>16, <2>1, <2>2, <2>3, <2>4, <2>6
<1>7. CASE q.kind = "domain" /\ HasDomain(q)
  <2>1. q.domain \in 0..D
    BY <1>3, <1>7 DEF HasDomain
  <2>2. D64Start(q) = Number(q.tld, q.domain, O) /\ D64End(q) = Number(q.tld, q.domain, S)
    BY <1>7 DEF D64Start, D64End, AtDomain, D, S, O
  <2>5. Number(q.tld, q.domain, O) \in Nat
    BY <1>1, <1>2, <1>12, <2>1
  <2>3. Num(n) < Number(q.tld, q.domain, O) <=>
          (n.tld < q.tld \/ (n.tld = q.tld /\ n.domain < q.domain))
    <3>1. (Num(n) < Number(q.tld, q.domain, O)) <=>
           (n.tld < q.tld \/ (n.tld = q.tld /\ (n.domain < q.domain \/ (n.domain = q.domain /\ n.sub < O))))
      BY <1>1, <1>2, <1>13, <2>1
    <3> QED
      BY <1>17, <3>1
  <2>4. Num(n) < Number(q.tld, q.domain, S) <=>
          (n.tld < q.tld \/ (n.tld = q.tld /\ (n.domain < q.domain \/ (n.domain = q.domain /\ n.sub < S))))
    BY <1>1, <1>2, <1>12, <1>13, <1>14, <2>1
  <2> QED
    BY <1>1, <1>2, <1>5, <1>7, <1>11, <1>15, <1>16, <2>1, <2>2, <2>3, <2>4, <2>5
<1>8. CASE q.kind = "domain" /\ ~HasDomain(q)
  <2>1. D64End(q) = Number(O, O, S)
    BY <1>8 DEF D64End, S, O
  <2>2. ~(Num(n) < Number(O, O, S))
    <3>1. (Num(n) < Number(O, O, S)) <=>
           (n.tld < O \/ (n.tld = O /\ (n.domain < O \/ (n.domain = O /\ n.sub < S))))
      BY <1>2, <1>13
    <3> QED
      BY <1>2, <1>5, <1>17, <3>1
  <2> QED
    BY <1>8, <1>15, <2>1, <2>2 DEF HasDomain
<1>9. CASE q.kind = "sub" /\ HasName(q)
  <2> DEFINE x == Number(q.tld, q.domain, q.sub)
  <2>1. q.domain \in 0..D /\ q.sub \in 0..S
    BY <1>3, <1>9 DEF HasName
  <2>2. D64Start(q) = x /\ D64End(q) = x + 1
    BY <1>9 DEF D64Start, D64End
  <2>3. x \in Nat
    BY <1>1, <1>12, <1>13, <1>14, <2>1
  <2>4. /\ Num(n) < x <=> (n.tld < q.tld \/ (n.tld = q.tld /\
             (n.domain < q.domain \/ (n.domain = q.domain /\ n.sub < q.sub))))
        /\ x < Num(n) <=> (q.tld < n.tld \/ (q.tld = n.tld /\
             (q.domain < n.domain \/ (q.domain = n.domain /\ q.sub < n.sub))))
    BY <1>1, <1>12, <1>13, <1>14, <2>1
  <2> HIDE DEF x
  <2>5. (x <= Num(n) /\ Num(n) < x + 1) <=> (~(Num(n) < x) /\ ~(x < Num(n)))
    BY <1>11, <2>3
  <2> QED
    BY <1>1, <1>5, <1>9, <1>15, <1>16, <2>1, <2>2, <2>4, <2>5
<1>10. CASE q.kind = "sub" /\ ~HasName(q)
  <2>1. D64End(q) = 1
    BY <1>10 DEF D64Start, D64End
  <2>2. Number(O, O, O) < Num(n)
    <3>1. (Number(O, O, O) < Num(n)) <=>
           (O < n.tld \/ (O = n.tld /\ (O < n.domain \/ (O = n.domain /\ O < n.sub))))
      BY <1>2, <1>14
    <3> QED
      BY <1>17, <3>1
  <2>3. Number(O, O, O) \in Nat
    BY <1>2, <1>12, <1>13, <1>14
  <2> QED
    BY <1>11, <1>15, <1>10, <2>1, <2>2, <2>3 DEF HasName
<1> QED
  BY <1>1, <1>6, <1>7, <1>8, <1>9, <1>10

\* Zero is in the range of a request if nobody has the name, and only then.
LEMMA ZeroInRange ==
  ASSUME NEW q \in Request
  PROVE  (D64Start(q) <= Num(Unlisted) /\ Num(Unlisted) < D64End(q)) <=>
           Unlisted \in AtZero(q)
<1> DEFINE D == Domains - 1
           S == Subdomains - 1
           O == 0
<1>1. /\ q.kind \in {"tld", "domain", "sub"} /\ q.tld \in Nat \ {0}
      /\ q.domain \in Nat /\ q.sub \in Nat
  BY DEF Request
<1>2. /\ O = 0 /\ O \in 0..D /\ D \in 0..D /\ O \in 0..S /\ S \in 0..S /\ O < S /\ D \in Nat
  BY Domain64Assumptions DEF Domain64Assumption
<1>3. \A u, w \in Nat, d \in 0..D, e \in 0..D, s \in 0..S, z \in 0..S :
        /\ Number(u, d, s) \in Nat
        /\ (Number(u, d, s) < Number(w, e, z)) <=>
             (u < w \/ (u = w /\ (d < e \/ (d = e /\ s < z))))
  BY NumberOrder
<1>4. Num(Unlisted) = 0
  BY Domain64Assumptions DEF Domain64Assumption, Num, Number, Unlisted
<1>5. Number(O, O, O) = 0
  BY Domain64Assumptions DEF Domain64Assumption, Number
<1>6. \A u \in Nat \ {0}, d \in 0..D, s \in 0..S : 0 < Number(u, d, s)
  BY <1>2, <1>3, <1>5
<1>7. 0 < Number(O, O, S) /\ 0 < Number(O, D, S)
  BY <1>2, <1>3, <1>5
<1>8. Unlisted \in AtZero(q) <=> CASE q.kind = "tld"    -> q.tld \notin TLDs
                                  [] q.kind = "domain" -> ~HasDomain(q)
                                  [] q.kind = "sub"    -> ~HasName(q)
  BY DEF AtZero
<1>9. \A m \in Table : m.domain \in 0..D /\ m.sub \in 0..S
  BY Domain64Assumptions DEF Domain64Assumption
<1> HIDE DEF D, S, O
<1>10. CASE q.kind = "tld"
  <2>1. D64Start(q) = Number(GetTLD(q.tld), O, O) /\ D64End(q) = Number(GetTLD(q.tld), D, S)
    BY <1>10 DEF D64Start, D64End, D, S, O
  <2>2. CASE q.tld \in TLDs
    <3>1. 0 < D64Start(q) /\ D64Start(q) \in Nat
      BY <1>1, <1>2, <1>3, <1>6, <2>1, <2>2 DEF GetTLD
    <3> QED
      BY <1>4, <1>8, <1>10, <2>2, <3>1
  <2>3. CASE q.tld \notin TLDs
    <3>1. D64Start(q) = 0 /\ 0 < D64End(q)
      BY <1>2, <1>5, <1>7, <2>1, <2>3 DEF GetTLD
    <3> QED
      BY <1>4, <1>8, <1>10, <2>3, <3>1
  <2> QED
    BY <2>2, <2>3
<1>11. CASE q.kind = "domain" /\ HasDomain(q)
  <2>1. D64Start(q) = Number(q.tld, q.domain, O) /\ q.domain \in 0..D
    BY <1>9, <1>11 DEF D64Start, AtDomain, HasDomain, O
  <2>2. 0 < Number(q.tld, q.domain, O)
    BY <1>1, <1>2, <1>6, <2>1
  <2>3. Number(q.tld, q.domain, O) \in Nat
    BY <1>1, <1>2, <1>3, <2>1
  <2> QED
    BY <1>4, <1>8, <1>11, <2>1, <2>2, <2>3
<1>12. CASE q.kind = "domain" /\ ~HasDomain(q)
  <2>1. D64Start(q) = 0 /\ D64End(q) = Number(O, O, S)
    BY <1>12 DEF D64Start, D64End, S, O
  <2> QED
    BY <1>4, <1>7, <1>8, <1>12, <2>1
<1>13. CASE q.kind = "sub" /\ HasName(q)
  <2>1. D64Start(q) = Number(q.tld, q.domain, q.sub) /\ q.domain \in 0..D /\ q.sub \in 0..S
    BY <1>9, <1>13 DEF D64Start, HasName
  <2>2. 0 < Number(q.tld, q.domain, q.sub)
    BY <1>1, <1>6, <2>1
  <2>3. Number(q.tld, q.domain, q.sub) \in Nat
    BY <1>1, <1>3, <2>1
  <2> QED
    BY <1>4, <1>8, <1>13, <2>1, <2>2, <2>3
<1>14. CASE q.kind = "sub" /\ ~HasName(q)
  <2>1. D64Start(q) = 0 /\ D64End(q) = 1
    BY <1>14 DEF D64Start, D64End
  <2> QED
    BY <1>4, <1>8, <1>14, <2>1
<1> QED
  BY <1>1, <1>10, <1>11, <1>12, <1>13, <1>14

\* The range of a request holds the names it is about, all but the one at its end; and
\* if nobody has the name, the number zero of the hosts the table lacks.  (D64Start and
\* D64End as the handlers of serve make them, InRange as search_db-query.sql selects.)
THEOREM RangeIsBelow ==
  ASSUME NEW q \in Request
  PROVE  InRange(D64Start(q), D64End(q)) = (Below(q) \ AtTheEnd(q)) \cup AtZero(q)
<1> DEFINE In(n) == D64Start(q) <= Num(n) /\ Num(n) < D64End(q)
<1>1. \A n \in Table : In(n) <=> n \in Below(q) \ AtTheEnd(q)
  BY TableInRange
<1>2. In(Unlisted) <=> Unlisted \in AtZero(q)
  BY ZeroInRange
<1>3. Below(q) \subseteq Table /\ AtZero(q) \subseteq {Unlisted}
  BY DEF Below, AtZero
<1>4. InRange(D64Start(q), D64End(q)) = {n \in Table \cup {Unlisted} : In(n)}
  BY DEF InRange, Stored
<1> HIDE DEF In
<1> QED
  BY <1>1, <1>2, <1>3, <1>4

-----------------------------------------------------------------------------
(* The lists of keys.                                                      *)

LEMMA Lists ==
  /\ Len(Written) = 6 /\ Len(Counted) = 2 /\ Len(Bounds) = 2 /\ Len(Rendered) = 8
  /\ \A i \in 1..6 : Written[i] \in Elements(Written)
  /\ Counted[1] = "pageCount" /\ Counted[2] = "bodyCount"
  /\ Bounds[1] = "d64_start" /\ Bounds[2] = "d64_end"
  /\ \A i \in 1..8 : Rendered[i] \in Key
<1>1. /\ Len(Written) = 6 /\ Len(Counted) = 2 /\ Len(Bounds) = 2 /\ Len(Rendered) = 8
      /\ Counted[1] = "pageCount" /\ Counted[2] = "bodyCount"
      /\ Bounds[1] = "d64_start" /\ Bounds[2] = "d64_end"
  BY DEF Written, Counted, Bounds, Rendered
<1>2. DOMAIN Written = 1..6 /\ DOMAIN Counted = 1..2
  BY DEF Written, Counted
<1>3. \A i \in 1..6 : Written[i] \in Elements(Written)
  BY <1>2 DEF Elements
<1>4. /\ Written[1] = "tld" /\ Written[2] = "domain" /\ Written[3] = "subdomain"
      /\ Written[4] = "fqdn" /\ Written[5] = "d64_start" /\ Written[6] = "d64_end"
  BY DEF Written
<1>5. {"tld", "domain", "subdomain", "fqdn", "d64_start", "d64_end"} \subseteq Elements(Written)
  BY <1>3, <1>4
<1>6. {"pageCount", "bodyCount"} \subseteq Elements(Counted)
  BY <1>1, <1>2 DEF Elements
<1>7. /\ Rendered[1] = "bodyCount" /\ Rendered[2] = "pageCount" /\ Rendered[3] = "tld"
      /\ Rendered[4] = "domain" /\ Rendered[5] = "subdomain" /\ Rendered[6] = "fqdn"
      /\ Rendered[7] = "d64_start" /\ Rendered[8] = "d64_end"
  BY DEF Rendered
<1>8. \A i \in 1..8 : i \in {1, 2, 3, 4, 5, 6, 7, 8}
  OBVIOUS
<1>9. \A i \in 1..8 : Rendered[i] \in Key
  BY <1>5, <1>6, <1>7, <1>8 DEF Key
<1> QED
  BY <1>1, <1>3, <1>9

LEMMA Sets ==
  /\ Elements(Written) = {"tld", "domain", "subdomain", "fqdn", "d64_start", "d64_end"}
  /\ Elements(Counted) = {"pageCount", "bodyCount"}
  /\ Key = {Rendered[i] : i \in 1..8}
  /\ Elements(Written) = {Written[i] : i \in 1..6}
<1>1. DOMAIN Written = 1..6 /\ DOMAIN Counted = 1..2
  BY DEF Written, Counted
<1>2. /\ Written[1] = "tld" /\ Written[2] = "domain" /\ Written[3] = "subdomain"
      /\ Written[4] = "fqdn" /\ Written[5] = "d64_start" /\ Written[6] = "d64_end"
  BY DEF Written
<1>3. \A i \in 1..6 : i \in {1, 2, 3, 4, 5, 6}
  OBVIOUS
<1>4. Elements(Written) = {"tld", "domain", "subdomain", "fqdn", "d64_start", "d64_end"}
  <2>1. Elements(Written) = {Written[i] : i \in 1..6}
    BY <1>1 DEF Elements
  <2> QED
    BY <1>2, <1>3, <2>1
<1>5. Elements(Counted) = {"pageCount", "bodyCount"}
  <2>1. Elements(Counted) = {Counted[i] : i \in 1..2}
    BY <1>1 DEF Elements
  <2>2. Counted[1] = "pageCount" /\ Counted[2] = "bodyCount"
    BY DEF Counted
  <2> QED
    BY <2>1, <2>2
<1>6. /\ Rendered[1] = "bodyCount" /\ Rendered[2] = "pageCount" /\ Rendered[3] = "tld"
      /\ Rendered[4] = "domain" /\ Rendered[5] = "subdomain" /\ Rendered[6] = "fqdn"
      /\ Rendered[7] = "d64_start" /\ Rendered[8] = "d64_end"
  BY DEF Rendered
<1>7. Key = {"bodyCount", "pageCount", "tld", "domain", "subdomain", "fqdn", "d64_start", "d64_end"}
  BY <1>4, <1>5 DEF Key
<1>8. Key \subseteq {Rendered[i] : i \in 1..8}
  BY <1>6, <1>7
<1>9. \A i \in 1..8 : Rendered[i] \in Key
  BY Lists
<1> QED
  BY <1>1, <1>4, <1>5, <1>8, <1>9 DEF Elements

-----------------------------------------------------------------------------
(* Types.                                                                  *)

LEMMA InitTypeOK == Init => TypeOK
<1> SUFFICES ASSUME Init PROVE TypeOK
  OBVIOUS
<1>1. NoSpan \in Span /\ NoPage \in [Key -> Owner] /\ NoCounts \in [Elements(Counted) -> Span]
  BY DEF NoSpan, Span, NoPage, NoCounts, Owner
<1>2. MaxRaces \in Nat
  BY ServeAssumptions DEF ServeAssumption
<1>3. Unsearched \in [done : BOOLEAN, names : SUBSET Stored]
  BY DEF Unsearched
<1> QED
  BY <1>1, <1>2, <1>3, Lists DEF Init, TypeOK, Phase

\* Advance keeps a position between 1 and 8.
LEMMA AdvanceTypes ==
  ASSUME TypeOK, NEW v \in Visit, NEW list, NEW next \in Phase,
         Len(list) \in 1..8, Advance(v, list, next)
  PROVE  /\ at' \in [Visit -> 1..Len(Rendered)] /\ pc' \in [Visit -> Phase]
         /\ \A u \in Visit : u # v => pc'[u] = pc[u] /\ at'[u] = at[u]
         /\ IF at[v] < Len(list) THEN pc'[v] = pc[v] /\ at'[v] = at[v] + 1
                                 ELSE pc'[v] = next /\ at'[v] = 1
<1>1. at \in [Visit -> 1..8] /\ pc \in [Visit -> Phase] /\ Len(Rendered) = 8
  BY Lists DEF TypeOK
<1>2. CASE at[v] < Len(list)
  <2>1. at' = [at EXCEPT ![v] = @ + 1] /\ pc' = pc
    BY <1>2 DEF Advance
  <2>2. at[v] + 1 \in 1..8
    <3>1. PICK n \in 1..8 : n = Len(list)
      OBVIOUS
    <3>2. at[v] < n /\ at[v] \in 1..8
      BY <1>1, <1>2, <3>1
    <3> QED
      BY <3>2
  <2> QED
    BY <1>1, <1>2, <2>1, <2>2
<1>3. CASE ~(at[v] < Len(list))
  BY <1>1, <1>3 DEF Advance
<1> QED
  BY <1>2, <1>3

\* What each of the steps does to the phases and positions.
LEMMA WriteMoves ==
  ASSUME TypeOK, Positions, NEW v \in Visit, Write(v)
  PROVE  /\ at' \in [Visit -> 1..Len(Rendered)] /\ pc' \in [Visit -> Phase]
         /\ \A u \in Visit : u # v => pc'[u] = pc[u] /\ at'[u] = at[u]
         /\ IF at[v] < 6 THEN pc'[v] = "write" /\ at'[v] = at[v] + 1
                         ELSE pc'[v] = "read" /\ at'[v] = 1
         /\ at[v] \in 1..6 /\ Written[at[v]] \in Elements(Written) /\ count[v] = 1
<1>1. Len(Written) = 6 /\ Advance(v, Written, "read") /\ pc[v] = "write"
  BY Lists DEF Write
<1>2. at[v] \in 1..6 /\ count[v] = 1
  BY <1>1 DEF Positions
<1>3. "read" \in Phase /\ Len(Written) \in 1..8
  BY <1>1 DEF Phase
<1>4. /\ at' \in [Visit -> 1..Len(Rendered)] /\ pc' \in [Visit -> Phase]
      /\ \A u \in Visit : u # v => pc'[u] = pc[u] /\ at'[u] = at[u]
      /\ IF at[v] < Len(Written) THEN pc'[v] = pc[v] /\ at'[v] = at[v] + 1
                               ELSE pc'[v] = "read" /\ at'[v] = 1
  BY <1>1, <1>3, AdvanceTypes
<1> QED
  BY <1>1, <1>2, <1>4, Lists

LEMMA ReadMoves ==
  ASSUME TypeOK, Positions, NEW v \in Visit, ReadBound(v)
  PROVE  /\ at' \in [Visit -> 1..Len(Rendered)] /\ pc' \in [Visit -> Phase]
         /\ \A u \in Visit : u # v => pc'[u] = pc[u] /\ at'[u] = at[u]
         /\ IF at[v] = 1 THEN pc'[v] = "read" /\ at'[v] = 2
                         ELSE pc'[v] = "count" /\ at'[v] = 1
         /\ at[v] \in {1, 2}
<1>1. Len(Bounds) = 2 /\ Advance(v, Bounds, "count") /\ pc[v] = "read"
  BY Lists DEF ReadBound
<1>2. at[v] \in 1..2
  BY <1>1 DEF Positions
<1>3. "count" \in Phase /\ Len(Bounds) \in 1..8
  BY <1>1 DEF Phase
<1>4. /\ at' \in [Visit -> 1..Len(Rendered)] /\ pc' \in [Visit -> Phase]
      /\ \A u \in Visit : u # v => pc'[u] = pc[u] /\ at'[u] = at[u]
      /\ IF at[v] < Len(Bounds) THEN pc'[v] = pc[v] /\ at'[v] = at[v] + 1
                               ELSE pc'[v] = "count" /\ at'[v] = 1
  BY <1>1, <1>3, AdvanceTypes
<1> QED
  BY <1>1, <1>2, <1>4

LEMMA CountMoves ==
  ASSUME TypeOK, Positions, NEW v \in Visit, WriteCount(v)
  PROVE  /\ count' \in [Visit -> 1..Len(Counted)] /\ pc' \in [Visit -> Phase] /\ at' = at
         /\ \A u \in Visit : u # v => pc'[u] = pc[u] /\ count'[u] = count[u]
         /\ IF count[v] = 1 THEN pc'[v] = "read" /\ count'[v] = 2
                            ELSE pc'[v] = "render" /\ count'[v] = count[v]
         /\ count[v] \in {1, 2} /\ Counted[count[v]] \in Elements(Counted) /\ at[v] = 1
<1>1. Len(Counted) = 2 /\ pc[v] = "count" /\ count \in [Visit -> 1..2] /\ pc \in [Visit -> Phase]
  BY Lists DEF WriteCount, TypeOK
<1>2. {"read", "render"} \subseteq Phase
  BY DEF Phase
<1>3. count[v] \in {1, 2} /\ at[v] = 1
  BY <1>1 DEF Positions
<1>4. Counted[count[v]] \in Elements(Counted)
  BY <1>3, Lists, Sets
<1>5. at' = at
  BY DEF WriteCount
<1>6. CASE count[v] = 1
  <2>1. count' = [count EXCEPT ![v] = @ + 1] /\ pc' = [pc EXCEPT ![v] = "read"]
    BY <1>1, <1>6 DEF WriteCount
  <2> QED
    BY <1>1, <1>2, <1>3, <1>4, <1>5, <1>6, <2>1
<1>7. CASE count[v] = 2
  <2>1. count' = count /\ pc' = [pc EXCEPT ![v] = "render"]
    BY <1>1, <1>7 DEF WriteCount
  <2> QED
    BY <1>1, <1>2, <1>3, <1>4, <1>5, <1>7, <2>1
<1> QED
  BY <1>3, <1>6, <1>7

LEMMA RenderMoves ==
  ASSUME TypeOK, Positions, NEW v \in Visit, Render(v)
  PROVE  /\ at' \in [Visit -> 1..Len(Rendered)] /\ pc' \in [Visit -> Phase]
         /\ \A u \in Visit : u # v => pc'[u] = pc[u] /\ at'[u] = at[u]
         /\ IF at[v] < 8 THEN pc'[v] = "render" /\ at'[v] = at[v] + 1
                         ELSE pc'[v] = "answered" /\ at'[v] = 1
         /\ at[v] \in 1..8 /\ Rendered[at[v]] \in Key
<1>1. Len(Rendered) = 8 /\ Advance(v, Rendered, "answered") /\ pc[v] = "render"
  BY Lists DEF Render
<1>2. at[v] \in 1..8
  BY <1>1 DEF TypeOK
<1>3. "answered" \in Phase /\ Len(Rendered) \in 1..8
  BY <1>1 DEF Phase
<1>4. /\ at' \in [Visit -> 1..Len(Rendered)] /\ pc' \in [Visit -> Phase]
      /\ \A u \in Visit : u # v => pc'[u] = pc[u] /\ at'[u] = at[u]
      /\ IF at[v] < Len(Rendered) THEN pc'[v] = pc[v] /\ at'[v] = at[v] + 1
                               ELSE pc'[v] = "answered" /\ at'[v] = 1
  BY <1>1, <1>3, AdvanceTypes
<1> QED
  BY <1>1, <1>2, <1>4, Lists

LEMMA StepTypeOK == ASSUME TypeOK, Positions, [Next]_vars PROVE TypeOK'
<1> USE DEF TypeOK, Owner
<1>1. ASSUME NEW v \in Visit, Arrive(v) PROVE TypeOK'
  BY <1>1 DEF Arrive, Phase, AtWork
<1>2. ASSUME NEW v \in Visit, Write(v) PROVE TypeOK'
  <2>1. params' \in [Key -> Owner]
    BY <1>2, WriteMoves DEF Write, Left, Key
  <2> QED
    BY <1>2, <2>1, WriteMoves DEF Write
<1>3. ASSUME NEW v \in Visit, ReadBound(v) PROVE TypeOK'
  <2>1. params[Bounds[1]] \in Owner /\ params[Bounds[2]] \in Owner
    BY Lists, Sets DEF Key
  <2>3. /\ [mine[v] EXCEPT !.start = params[Bounds[1]]] \in Span
        /\ [mine[v] EXCEPT !.end = params[Bounds[2]]] \in Span
    <3> HIDE DEF Owner
    <3>1. mine[v] \in Span
      OBVIOUS
    <3>2. mine[v] \in [start : Owner, end : Owner]
      BY <3>1 DEF Span
    <3> HIDE DEF TypeOK
    <3> QED
      BY <2>1, <3>2 DEF Span
  <2>2. mine' \in [Visit -> Span]
    <3> HIDE DEF Owner
    <3> QED
      BY <1>3, <2>3 DEF ReadBound
  <2> QED
    BY <1>3, <2>2, ReadMoves DEF ReadBound
<1>4. ASSUME NEW v \in Visit, WriteCount(v) PROVE TypeOK'
  <2>1. params' \in [Key -> Owner] /\ span' \in [Elements(Counted) -> Span]
    BY <1>4, CountMoves DEF WriteCount, Left, Key
  <2> QED
    BY <1>4, <2>1, CountMoves DEF WriteCount
<1>5. ASSUME NEW v \in Visit, Render(v) PROVE TypeOK'
  <2> DEFINE k == Rendered[at[v]]
  <2>1. k \in Key
    BY <1>5, RenderMoves
  <2>2. page' \in [Visit -> [Key -> Owner]]
    BY <1>5, <2>1 DEF Render
  <2>3. pageSpan' \in [Visit -> [Elements(Counted) -> Span]]
    BY <1>5 DEF Render
  <2> QED
    BY <1>5, <2>2, <2>3, RenderMoves DEF Render
<1>6. ASSUME NEW v \in Visit, Search(v) PROVE TypeOK'
  BY <1>6 DEF Search, handler, InRange
<1>7. ASSUME FatalRace PROVE TypeOK'
  <2>1. NoPage \in [Key -> Owner] /\ NoCounts \in [Elements(Counted) -> Span]
    BY DEF NoPage, NoCounts, NoSpan, Span
  <2>2. races' \in 0..MaxRaces
    BY <1>7, ServeAssumptions DEF ServeAssumption, FatalRace
  <2>3. pc' \in [Visit -> Phase]
    BY <1>7 DEF FatalRace, Phase
  <2> QED
    BY <1>7, <2>1, <2>2, <2>3 DEF FatalRace
<1>8. ASSUME UNCHANGED vars PROVE TypeOK'
  BY <1>8 DEF vars, handler
<1> QED
  BY <1>1, <1>2, <1>3, <1>4, <1>5, <1>6, <1>7, <1>8 DEF Next, Handle, Done

-----------------------------------------------------------------------------
(* The inductive invariant.                                                *)

LEMMA InitIInv == Init => IInv
<1> SUFFICES ASSUME Init PROVE IInv
  OBVIOUS
<1>1. \A v \in Visit : pc[v] = "new" /\ at[v] = 1 /\ count[v] = 1 /\ met[v] = {} /\ ~found[v].done
  BY DEF Init, Unsearched
<1>2. AtWork = {} /\ \A v \in Visit : Shown(v) = {}
  BY <1>1 DEF AtWork, Shown
<1>3. \A c \in Elements(Counted) : params[c] \notin Visit
  BY ServeAssumptions DEF Init, NoPage, ServeAssumption, Key
<1> QED
  BY <1>1, <1>2, <1>3, InitTypeOK
     DEF IInv, Positions, WorkersHaveMet, LeftByNear, BoundsAreNear, ShownIsNear, SearchedIsNear

\* Who is near comes from Visit, so what a worker has left is a request's.
LEMMA NearVisit == ASSUME TypeOK, NEW v \in Visit PROVE Near(v) \subseteq Visit
  BY DEF TypeOK, Near

\* A step that renders nothing and makes nobody less near keeps what was rendered.
LEMMA ShownKept ==
  ASSUME IInv, page' = page, pageSpan' = pageSpan,
         \A u \in Visit : Near(u) \subseteq Near(u)',
         \A u \in Visit : Shown(u)' \subseteq Shown(u)
  PROVE  ShownIsNear'
<1> USE DEF IInv
<1> SUFFICES ASSUME NEW u \in Visit, NEW k \in Shown(u)
             PROVE  /\ page'[u][k] \in Near(u)'
                    /\ k \in Elements(Counted) => /\ pageSpan'[u][k].start \in Near(page[u][k])'
                                                 /\ pageSpan'[u][k].end \in Near(page[u][k])'
  BY DEF ShownIsNear
<1> DEFINE p == page[u][k]
<1>1. p \in Near(u) /\ p \in Visit
  BY NearVisit DEF ShownIsNear
<1>2. k \in Elements(Counted) => pageSpan[u][k].start \in Near(p) /\ pageSpan[u][k].end \in Near(p)
  BY DEF ShownIsNear
<1>3. \A x \in Visit : met[x] \subseteq {x} \cup met'[x]
  BY DEF Near
<1>4. page'[u][k] = p
  OBVIOUS
<1>5. page'[u][k] \in {u} \cup met'[u]
  BY <1>1, <1>3, <1>4 DEF Near
<1>6. k \in Elements(Counted) => /\ pageSpan'[u][k].start \in {page'[u][k]} \cup met'[page'[u][k]]
                                /\ pageSpan'[u][k].end \in {page'[u][k]} \cup met'[page'[u][k]]
  BY <1>1, <1>2, <1>3, <1>4 DEF Near
<1> QED
  BY <1>5, <1>6 DEF Near

LEMMA PassedKeys == ASSUME TypeOK, Positions, NEW u \in Visit PROVE Passed(u) \subseteq Key
<1>1. count[u] \in 1..2 /\ at[u] \in 1..8 /\ (pc[u] = "write" => at[u] \in 1..6)
  BY Lists DEF TypeOK, Positions
<1>2. \A i \in 1..2 : Counted[i] \in Key
  BY Lists, Sets DEF Key
<1>3. \A i \in 1..6 : Written[i] \in Key
  BY Lists DEF Key
<1> QED
  BY <1>1, <1>2, <1>3 DEF Passed, Key

LEMMA ArriveIInv == ASSUME IInv, TypeOK', NEW v \in Visit, Arrive(v) PROVE IInv'
<1> USE DEF IInv
<1>1. /\ pc[v] = "new" /\ pc \in [Visit -> Phase] /\ met \in [Visit -> SUBSET Visit]
      /\ pc'[v] = "write" /\ \A u \in Visit : u # v => pc'[u] = pc[u]
      /\ at' = at /\ count' = count /\ params' = params /\ span' = span /\ mine' = mine
      /\ page' = page /\ pageSpan' = pageSpan /\ found' = found /\ about' = about
  BY DEF Arrive, TypeOK
<1>2. met[v] = {} /\ at[v] = 1 /\ count[v] = 1
  BY <1>1 DEF Positions
<1>3. v \notin AtWork /\ AtWork' = AtWork \cup {v}
  BY <1>1 DEF AtWork
<1>4. met'[v] = AtWork /\ \A u \in AtWork : met'[u] = met[u] \cup {v}
  BY <1>1, <1>3 DEF Arrive, AtWork
<1>5. \A u \in Visit : u # v /\ u \notin AtWork => met'[u] = met[u]
  BY <1>1 DEF Arrive
<1>6. \A u \in Visit : Near(u) \subseteq Near(u)'
  BY <1>2, <1>3, <1>4, <1>5 DEF Near
<1>7. Passed(v)' = {}
  BY <1>1, <1>2 DEF Passed
<1>8. \A u \in Visit : u # v => Passed(u)' = Passed(u)
  BY <1>1 DEF Passed
<1>9. Shown(v)' = {} /\ \A u \in Visit : u # v => Shown(u)' = Shown(u)
  BY <1>1 DEF Shown
<1>10. Positions'
  BY <1>1, <1>2, <1>5, Lists DEF Positions, AtWork
<1>11. WorkersHaveMet'
  BY <1>3, <1>4 DEF WorkersHaveMet, AtWork
<1>12. LeftByNear'
  BY <1>1, <1>3, <1>6, <1>7, <1>8 DEF LeftByNear, AtWork
<1>13. BoundsAreNear'
  BY <1>1, <1>6 DEF BoundsAreNear
<1>14. ShownIsNear'
  BY <1>1, <1>6, <1>9, ShownKept
<1>15. SearchedIsNear'
  BY <1>1 DEF SearchedIsNear
<1> QED
  BY <1>10, <1>11, <1>12, <1>13, <1>14, <1>15

LEMMA WriteIInv == ASSUME IInv, TypeOK', NEW v \in Visit, Write(v) PROVE IInv'
<1> USE DEF IInv
<1> DEFINE k == Written[at[v]]
<1>1. /\ pc[v] = "write" /\ pc \in [Visit -> Phase] /\ met' = met
      /\ count' = count /\ span' = span /\ mine' = mine
      /\ page' = page /\ pageSpan' = pageSpan /\ found' = found /\ about' = about
  BY DEF Write, TypeOK
<1>2. /\ \A u \in Visit : u # v => pc'[u] = pc[u] /\ at'[u] = at[u]
      /\ IF at[v] < 6 THEN pc'[v] = "write" /\ at'[v] = at[v] + 1
                      ELSE pc'[v] = "read" /\ at'[v] = 1
      /\ at[v] \in 1..6 /\ k \in Elements(Written) /\ count[v] = 1
  BY WriteMoves
<1>3. k \in Key /\ params'[k] = v /\ \A j \in Key : j # k => params'[j] = params[j]
  BY <1>2 DEF Write, Left, TypeOK, Key
<1> HIDE DEF k
<1>4. AtWork' = AtWork /\ v \in AtWork
  BY <1>1, <1>2 DEF AtWork
<1>5. \A u \in Visit : Near(u)' = Near(u)
  BY <1>1 DEF Near
<1>6. Passed(v)' \subseteq Passed(v) \cup {k}
  <2>1. Passed(v) = {Written[i] : i \in 1..(at[v] - 1)}
    BY <1>1 DEF Passed
  <2>2. CASE at[v] < 6
    <3>1. Passed(v)' = {Written[i] : i \in 1..(at[v] + 1 - 1)}
      BY <1>2, <2>2 DEF Passed
    <3>2. \A i \in 1..(at[v] + 1 - 1) : i \in 1..(at[v] - 1) \/ i = at[v]
      BY <1>2
    <3> QED
      BY <2>1, <3>1, <3>2 DEF k
  <2>3. CASE ~(at[v] < 6)
    <3>1. at[v] = 6
      BY <1>2, <2>3
    <3>2. pc'[v] = "read" /\ count'[v] = 1
      BY <1>1, <1>2, <3>1
    <3>3. Passed(v)' = Elements(Written) \cup {Counted[i] : i \in 1..0}
      BY <3>2 DEF Passed
    <3>4. \A i \in 1..6 : i \in 1..(at[v] - 1) \/ i = at[v]
      BY <3>1
    <3> QED
      BY <2>1, <3>3, <3>4, Sets DEF k
  <2> QED
    BY <2>2, <2>3
<1>7. \A u \in Visit : u # v => Passed(u)' = Passed(u)
  BY <1>1, <1>2 DEF Passed
<1>8. \A u \in Visit : Passed(u) \subseteq Key
  BY PassedKeys
<1>9. \A u \in Visit : Shown(u)' = Shown(u)
  BY <1>1, <1>2 DEF Shown
<1>10. Positions'
  <2> SUFFICES ASSUME NEW u \in Visit
               PROVE  /\ pc'[u] = "write" => at'[u] \in 1..6
                      /\ pc'[u] = "read" => at'[u] \in 1..2
                      /\ pc'[u] \in {"new", "count"} => at'[u] = 1
                      /\ pc'[u] \in {"new", "write"} => count'[u] = 1
                      /\ pc'[u] = "new" => met'[u] = {}
    BY Lists DEF Positions
  <2>1. CASE u = v
    BY <1>1, <1>2, <2>1
  <2>2. CASE u # v
    BY <1>1, <1>2, <2>2, Lists DEF Positions
  <2> QED
    BY <2>1, <2>2
<1>11. WorkersHaveMet'
  BY <1>1, <1>4 DEF WorkersHaveMet
<1>12. LeftByNear'
  <2> SUFFICES ASSUME NEW u \in AtWork, NEW j \in Passed(u)'
               PROVE  params'[j] \in Near(u)
    BY <1>4, <1>5 DEF LeftByNear, AtWork
  <2>1. u \in Visit /\ v \in Near(u)
    BY <1>4 DEF AtWork, WorkersHaveMet, Near
  <2>2. CASE j = k
    BY <1>3, <2>1, <2>2
  <2>3. CASE j # k
    <3>1. j \in Passed(u)
      BY <1>6, <1>7, <2>1, <2>3
    <3> QED
      BY <1>3, <1>8, <2>1, <2>3, <3>1 DEF LeftByNear
  <2> QED
    BY <2>2, <2>3
<1>13. BoundsAreNear'
  <2>1. \A c \in Elements(Counted) : c \in Key /\ c # k
    BY <1>2, Sets DEF Key
  <2>2. \A c \in Elements(Counted) : params'[c] = params[c]
    BY <1>3, <2>1
  <2>3. \A u \in Visit : /\ pc'[u] = "count" => pc[u] = "count"
                         /\ pc'[u] = "read" /\ at'[u] = 2 => pc[u] = "read" /\ at[u] = 2
    BY <1>1, <1>2
  <2> QED
    BY <1>1, <1>5, <2>2, <2>3 DEF BoundsAreNear
<1>14. ShownIsNear'
  BY <1>1, <1>5, <1>9, ShownKept
<1>15. SearchedIsNear'
  BY <1>1, <1>2 DEF SearchedIsNear
<1> QED
  BY <1>10, <1>11, <1>12, <1>13, <1>14, <1>15

LEMMA ReadBoundIInv == ASSUME IInv, TypeOK', NEW v \in Visit, ReadBound(v) PROVE IInv'
<1> USE DEF IInv
<1>1. /\ pc[v] = "read" /\ pc \in [Visit -> Phase] /\ met' = met
      /\ count' = count /\ span' = span /\ params' = params
      /\ page' = page /\ pageSpan' = pageSpan /\ found' = found /\ about' = about
  BY DEF ReadBound, TypeOK
<1>2. /\ \A u \in Visit : u # v => pc'[u] = pc[u] /\ at'[u] = at[u]
      /\ IF at[v] = 1 THEN pc'[v] = "read" /\ at'[v] = 2
                      ELSE pc'[v] = "count" /\ at'[v] = 1
      /\ at[v] \in {1, 2}
  BY ReadMoves
<1>3. \A u \in Visit : u # v => mine'[u] = mine[u]
  BY DEF ReadBound
<1>4. AtWork' = AtWork /\ v \in AtWork
  BY <1>1, <1>2 DEF AtWork
<1>5. \A u \in Visit : Near(u)' = Near(u)
  BY <1>1 DEF Near
<1>6. \A u \in Visit : Passed(u)' = Passed(u)
  BY <1>1, <1>2 DEF Passed
<1>7. \A u \in Visit : Shown(u)' = Shown(u)
  BY <1>1, <1>2 DEF Shown
<1>8. params["d64_start"] \in Near(v) /\ params["d64_end"] \in Near(v)
  <2>1. {"d64_start", "d64_end"} \subseteq Passed(v)
    BY <1>1, Sets DEF Passed
  <2> QED
    BY <1>4, <2>1 DEF LeftByNear
<1>9. /\ at[v] = 1 => mine'[v].start = params["d64_start"]
      /\ at[v] = 2 => mine'[v].start = mine[v].start /\ mine'[v].end = params["d64_end"]
  <2>1. mine[v] \in [start : Owner, end : Owner] /\ mine \in [Visit -> Span]
    BY DEF TypeOK, Span
  <2>2. CASE at[v] = 1
    <3>1. mine'[v] = [mine[v] EXCEPT !.start = params["d64_start"]]
      BY <2>1, <2>2, Lists DEF ReadBound
    <3> QED
      BY <2>1, <2>2, <3>1
  <2>3. CASE at[v] = 2
    <3>1. mine'[v] = [mine[v] EXCEPT !.end = params["d64_end"]]
      BY <2>1, <2>3, Lists DEF ReadBound
    <3> QED
      BY <2>1, <2>3, <3>1
  <2> QED
    BY <1>2, <2>2, <2>3
<1>10. Positions'
  <2> SUFFICES ASSUME NEW u \in Visit
               PROVE  /\ pc'[u] = "write" => at'[u] \in 1..6
                      /\ pc'[u] = "read" => at'[u] \in 1..2
                      /\ pc'[u] \in {"new", "count"} => at'[u] = 1
                      /\ pc'[u] \in {"new", "write"} => count'[u] = 1
                      /\ pc'[u] = "new" => met'[u] = {}
    BY Lists DEF Positions
  <2>1. CASE u = v
    BY <1>1, <1>2, <2>1
  <2>2. CASE u # v
    BY <1>1, <1>2, <2>2, Lists DEF Positions
  <2> QED
    BY <2>1, <2>2
<1>11. WorkersHaveMet'
  BY <1>1, <1>4 DEF WorkersHaveMet
<1>12. LeftByNear'
  BY <1>1, <1>4, <1>5, <1>6 DEF LeftByNear, AtWork
<1>13. BoundsAreNear'
  <2>1. \A u \in Visit : pc'[u] = "count" \/ (pc'[u] = "read" /\ at'[u] = 2) => mine'[u].start \in Near(u)
    <3> SUFFICES ASSUME NEW u \in Visit, pc'[u] = "count" \/ (pc'[u] = "read" /\ at'[u] = 2)
                 PROVE  mine'[u].start \in Near(u)
      OBVIOUS
    <3>1. CASE u # v
      BY <1>2, <1>3, <3>1 DEF BoundsAreNear
    <3>2. CASE u = v /\ at[v] = 1
      BY <1>8, <1>9, <3>2
    <3>3. CASE u = v /\ at[v] = 2
      BY <1>1, <1>9, <3>3 DEF BoundsAreNear
    <3> QED
      BY <1>2, <3>1, <3>2, <3>3
  <2>2. \A u \in Visit : pc'[u] = "count" => mine'[u].end \in Near(u)
    <3> SUFFICES ASSUME NEW u \in Visit, pc'[u] = "count"
                 PROVE  mine'[u].end \in Near(u)
      OBVIOUS
    <3>1. CASE u # v
      BY <1>2, <1>3, <3>1 DEF BoundsAreNear
    <3>2. CASE u = v
      <4>1. at[v] = 2
        BY <1>2, <3>2
      <4> QED
        BY <1>8, <1>9, <3>2, <4>1
    <3> QED
      BY <3>1, <3>2
  <2>3. \A c \in Elements(Counted) : params'[c] \in Visit =>
           span'[c].start \in Near(params[c]) /\ span'[c].end \in Near(params[c])
    BY <1>1 DEF BoundsAreNear
  <2> QED
    BY <1>1, <1>5, <2>1, <2>2, <2>3 DEF BoundsAreNear
<1>14. ShownIsNear'
  BY <1>1, <1>5, <1>7, ShownKept
<1>15. SearchedIsNear'
  BY <1>1, <1>2 DEF SearchedIsNear
<1> QED
  BY <1>10, <1>11, <1>12, <1>13, <1>14, <1>15

LEMMA WriteCountIInv == ASSUME IInv, TypeOK', NEW v \in Visit, WriteCount(v) PROVE IInv'
<1> USE DEF IInv
<1> DEFINE k == Counted[count[v]]
<1>1. /\ pc[v] = "count" /\ pc \in [Visit -> Phase] /\ met' = met /\ mine' = mine
      /\ page' = page /\ pageSpan' = pageSpan /\ found' = found /\ about' = about
  BY DEF WriteCount, TypeOK
<1>2. /\ at' = at /\ \A u \in Visit : u # v => pc'[u] = pc[u] /\ count'[u] = count[u]
      /\ IF count[v] = 1 THEN pc'[v] = "read" /\ count'[v] = 2
                         ELSE pc'[v] = "render" /\ count'[v] = count[v]
      /\ count[v] \in {1, 2} /\ k \in Elements(Counted) /\ at[v] = 1
  BY CountMoves
<1>3. k \in Key /\ params'[k] = v /\ \A j \in Key : j # k => params'[j] = params[j]
  BY <1>2 DEF WriteCount, Left, TypeOK, Key
<1>4. span'[k] = mine[v] /\ \A c \in Elements(Counted) : c # k => span'[c] = span[c]
  BY <1>2 DEF WriteCount, TypeOK
<1> HIDE DEF k
<1>5. AtWork' = AtWork /\ v \in AtWork
  BY <1>1, <1>2 DEF AtWork
<1>6. \A u \in Visit : Near(u)' = Near(u)
  BY <1>1 DEF Near
<1>7. Passed(v)' \subseteq Passed(v) \cup {k}
  <2>1. Passed(v) = Elements(Written) \cup {Counted[i] : i \in 1..(count[v] - 1)}
    BY <1>1 DEF Passed
  <2>2. CASE count[v] = 1
    <3>1. Passed(v)' = Elements(Written) \cup {Counted[i] : i \in 1..(2 - 1)}
      BY <1>2, <2>2 DEF Passed
    <3>2. \A i \in 1..(2 - 1) : i = count[v]
      BY <2>2
    <3> QED
      BY <2>1, <3>1, <3>2 DEF k
  <2>3. CASE count[v] = 2
    <3>1. Passed(v)' = Key
      BY <1>2, <2>3 DEF Passed
    <3>2. 1 \in 1..(count[v] - 1)
      BY <2>3
    <3>3. Key = Elements(Written) \cup {Counted[1], Counted[2]}
      BY Lists, Sets DEF Key
    <3> QED
      BY <2>1, <2>3, <3>1, <3>2, <3>3 DEF k
  <2> QED
    BY <1>2, <2>2, <2>3
<1>8. \A u \in Visit : u # v => Passed(u)' = Passed(u)
  BY <1>2 DEF Passed
<1>9. \A u \in Visit : Passed(u) \subseteq Key
  BY PassedKeys
<1>10. \A u \in Visit : Shown(u)' \subseteq Shown(u)
  <2>1. pc'[v] = "render" => Shown(v)' = {Rendered[i] : i \in 1..0}
    BY <1>2 DEF Shown
  <2>2. pc'[v] = "read" => Shown(v)' = {}
    BY <1>2 DEF Shown
  <2> QED
    BY <1>2, <2>1, <2>2 DEF Shown
<1>11. Positions'
  <2> SUFFICES ASSUME NEW u \in Visit
               PROVE  /\ pc'[u] = "write" => at'[u] \in 1..6
                      /\ pc'[u] = "read" => at'[u] \in 1..2
                      /\ pc'[u] \in {"new", "count"} => at'[u] = 1
                      /\ pc'[u] \in {"new", "write"} => count'[u] = 1
                      /\ pc'[u] = "new" => met'[u] = {}
    BY Lists DEF Positions
  <2>1. CASE u = v
    BY <1>1, <1>2, <2>1
  <2>2. CASE u # v
    BY <1>1, <1>2, <2>2, Lists DEF Positions
  <2> QED
    BY <2>1, <2>2
<1>12. WorkersHaveMet'
  BY <1>1, <1>5 DEF WorkersHaveMet
<1>13. LeftByNear'
  <2> SUFFICES ASSUME NEW u \in AtWork, NEW j \in Passed(u)'
               PROVE  params'[j] \in Near(u)
    BY <1>5, <1>6 DEF LeftByNear, AtWork
  <2>1. u \in Visit /\ v \in Near(u)
    BY <1>5 DEF AtWork, WorkersHaveMet, Near
  <2>2. CASE j = k
    BY <1>3, <2>1, <2>2
  <2>3. CASE j # k
    <3>1. j \in Passed(u)
      BY <1>7, <1>8, <2>1, <2>3
    <3> QED
      BY <1>3, <1>9, <2>1, <2>3, <3>1 DEF LeftByNear
  <2> QED
    BY <2>2, <2>3
<1>14. BoundsAreNear'
  <2>1. \A u \in Visit : /\ pc'[u] = "count" => pc[u] = "count"
                         /\ pc'[u] = "read" /\ at'[u] = 2 => pc[u] = "read" /\ at[u] = 2
    BY <1>1, <1>2
  <2>2. ASSUME NEW c \in Elements(Counted), params'[c] \in Visit
        PROVE  span'[c].start \in Near(params'[c]) /\ span'[c].end \in Near(params'[c])
    <3>1. c \in Key
      BY DEF Key
    <3>2. CASE c = k
      BY <1>1, <1>3, <1>4, <3>2 DEF BoundsAreNear
    <3>3. CASE c # k
      BY <1>3, <1>4, <2>2, <3>1, <3>3 DEF BoundsAreNear
    <3> QED
      BY <3>2, <3>3
  <2>3. \A c \in Elements(Counted) : params'[c] \in Visit =>
           /\ span'[c].start \in {params'[c]} \cup met[params'[c]]
           /\ span'[c].end \in {params'[c]} \cup met[params'[c]]
    BY <2>2 DEF Near
  <2> QED
    BY <1>1, <1>6, <2>1, <2>3 DEF BoundsAreNear, Near
<1>15. ShownIsNear'
  BY <1>1, <1>6, <1>10, ShownKept
<1>16. SearchedIsNear'
  BY <1>1, <1>2 DEF SearchedIsNear
<1> QED
  BY <1>11, <1>12, <1>13, <1>14, <1>15, <1>16

LEMMA RenderIInv == ASSUME IInv, TypeOK', NEW v \in Visit, Render(v) PROVE IInv'
<1> USE DEF IInv
<1> DEFINE k == Rendered[at[v]]
<1>1. /\ pc[v] = "render" /\ pc \in [Visit -> Phase] /\ met' = met /\ mine' = mine
      /\ params' = params /\ span' = span /\ count' = count /\ found' = found /\ about' = about
  BY DEF Render, TypeOK
<1>2. /\ \A u \in Visit : u # v => pc'[u] = pc[u] /\ at'[u] = at[u]
      /\ IF at[v] < 8 THEN pc'[v] = "render" /\ at'[v] = at[v] + 1
                      ELSE pc'[v] = "answered" /\ at'[v] = 1
      /\ at[v] \in 1..8 /\ k \in Key
  BY RenderMoves
<1>3. /\ page'[v][k] = params[k] /\ \A j \in Key : j # k => page'[v][j] = page[v][j]
      /\ \A u \in Visit : u # v => page'[u] = page[u]
  BY <1>2 DEF Render, TypeOK
<1>4. /\ k \in Elements(Counted) => pageSpan'[v][k] = span[k]
      /\ \A j \in Elements(Counted) : j # k => pageSpan'[v][j] = pageSpan[v][j]
      /\ \A u \in Visit : u # v => pageSpan'[u] = pageSpan[u]
  <2>1. CASE k \in Elements(Counted)
    <3>1. pageSpan' = [pageSpan EXCEPT ![v][k] = span[k]]
      BY <2>1 DEF Render
    <3> QED
      BY <2>1, <3>1 DEF TypeOK
  <2>2. CASE k \notin Elements(Counted)
    <3>1. pageSpan' = pageSpan
      BY <2>2 DEF Render
    <3> QED
      BY <2>2, <3>1
  <2> QED
    BY <2>1, <2>2
<1>16. Passed(v) = Key /\ v \in AtWork
  BY <1>1 DEF Passed, AtWork
<1>17. params[k] \in Near(v) /\ params[k] \in Visit
  BY <1>2, <1>16, NearVisit DEF LeftByNear
<1>18. Shown(v)' \subseteq Shown(v) \cup {k}
  <2>1. Shown(v) = {Rendered[i] : i \in 1..(at[v] - 1)}
    BY <1>1 DEF Shown
  <2>2. CASE at[v] < 8
    <3>1. Shown(v)' = {Rendered[i] : i \in 1..(at[v] + 1 - 1)}
      BY <1>2, <2>2 DEF Shown
    <3>2. \A i \in 1..(at[v] + 1 - 1) : i \in 1..(at[v] - 1) \/ i = at[v]
      BY <1>2
    <3> QED
      BY <2>1, <3>1, <3>2
  <2>3. CASE ~(at[v] < 8)
    <3>1. at[v] = 8
      BY <1>2, <2>3
    <3>2. Shown(v)' = Key
      BY <1>2, <3>1 DEF Shown
    <3>3. \A i \in 1..8 : i \in 1..(at[v] - 1) \/ i = at[v]
      BY <3>1
    <3> QED
      BY <2>1, <3>2, <3>3, Sets
  <2> QED
    BY <2>2, <2>3
<1> HIDE DEF k
<1>5. AtWork' \subseteq AtWork
  BY <1>1, <1>2 DEF AtWork
<1>6. \A u \in Visit : Near(u)' = Near(u)
  BY <1>1 DEF Near
<1>7. \A u \in AtWork' : Passed(u)' \subseteq Passed(u)
  <2>1. Passed(v)' \subseteq Key
    BY <1>2 DEF Passed
  <2> QED
    BY <1>1, <1>2, <1>16, <2>1 DEF Passed, AtWork
<1>8. \A u \in Visit : u # v => Shown(u)' = Shown(u)
  BY <1>2 DEF Shown
<1>9. Positions'
  <2> SUFFICES ASSUME NEW u \in Visit
               PROVE  /\ pc'[u] = "write" => at'[u] \in 1..6
                      /\ pc'[u] = "read" => at'[u] \in 1..2
                      /\ pc'[u] \in {"new", "count"} => at'[u] = 1
                      /\ pc'[u] \in {"new", "write"} => count'[u] = 1
                      /\ pc'[u] = "new" => met'[u] = {}
    BY Lists DEF Positions
  <2>1. CASE u = v
    BY <1>1, <1>2, <2>1
  <2>2. CASE u # v
    BY <1>1, <1>2, <2>2, Lists DEF Positions
  <2> QED
    BY <2>1, <2>2
<1>10. WorkersHaveMet'
  BY <1>1, <1>5 DEF WorkersHaveMet
<1>11. LeftByNear'
  <2>1. \A u \in AtWork' : u \in AtWork /\ u \in Visit
    BY <1>5 DEF AtWork
  <2> QED
    BY <1>1, <1>6, <1>7, <2>1 DEF LeftByNear
<1>12. BoundsAreNear'
  <2>1. \A u \in Visit : /\ pc'[u] = "count" => pc[u] = "count"
                         /\ pc'[u] = "read" /\ at'[u] = 2 => pc[u] = "read" /\ at[u] = 2
    BY <1>1, <1>2
  <2> QED
    BY <1>1, <1>6, <2>1 DEF BoundsAreNear, Near
<1>13. ShownIsNear'
  <2>1. \A j \in Shown(v) : j \in Key
    BY <1>1, <1>2, Lists DEF Shown
  <2>2. ASSUME NEW u \in Visit, NEW j \in Shown(u)'
        PROVE  page'[u][j] \in Near(u)
    <3>1. CASE u # v
      BY <1>3, <1>8, <2>2, <3>1 DEF ShownIsNear
    <3>2. CASE u = v /\ j = k
      BY <1>3, <1>17, <3>2
    <3>3. CASE u = v /\ j # k
      <4>1. j \in Shown(v)
        BY <1>18, <2>2, <3>3
      <4> QED
        BY <1>3, <2>1, <3>3, <4>1 DEF ShownIsNear
    <3> QED
      BY <3>1, <3>2, <3>3
  <2>3. ASSUME NEW u \in Visit, NEW j \in Shown(u)', j \in Elements(Counted)
        PROVE  /\ pageSpan'[u][j].start \in Near(page'[u][j])
               /\ pageSpan'[u][j].end \in Near(page'[u][j])
    <3>1. CASE u # v
      BY <1>3, <1>4, <1>8, <2>3, <3>1 DEF ShownIsNear
    <3>2. CASE u = v /\ j = k
      BY <1>3, <1>4, <1>17, <2>3, <3>2 DEF BoundsAreNear
    <3>3. CASE u = v /\ j # k
      <4>1. j \in Shown(v)
        BY <1>18, <2>3, <3>3
      <4>2. pageSpan'[u][j] = pageSpan[u][j] /\ page'[u][j] = page[u][j]
        BY <1>3, <1>4, <2>1, <2>3, <3>3, <4>1
      <4> QED
        BY <2>3, <3>3, <4>1, <4>2 DEF ShownIsNear
    <3> QED
      BY <3>1, <3>2, <3>3
  <2> QED
    BY <1>1, <2>2, <2>3 DEF ShownIsNear, Near
<1>14. SearchedIsNear'
  <2> SUFFICES ASSUME NEW u \in Visit, found'[u].done
               PROVE  /\ pc'[u] = "answered"
                      /\ found'[u].names = InRange(D64Start(about'[page'[u]["d64_start"]]),
                                                   D64End(about'[page'[u]["d64_end"]]))
    BY DEF SearchedIsNear
  <2>1. u # v
    BY <1>1 DEF SearchedIsNear
  <2> QED
    BY <1>1, <1>2, <1>3, <2>1 DEF SearchedIsNear
<1> QED
  BY <1>9, <1>10, <1>11, <1>12, <1>13, <1>14

LEMMA SearchIInv == ASSUME IInv, TypeOK', NEW v \in Visit, Search(v) PROVE IInv'
<1> USE DEF IInv
<1>1. /\ pc' = pc /\ at' = at /\ count' = count /\ mine' = mine /\ page' = page
      /\ pageSpan' = pageSpan /\ params' = params /\ span' = span /\ met' = met /\ about' = about
  BY DEF Search, handler
<1>2. /\ Positions' /\ WorkersHaveMet' /\ BoundsAreNear'
      /\ \A u \in Visit : Near(u)' = Near(u) /\ Passed(u)' = Passed(u) /\ Shown(u)' = Shown(u)
  BY <1>1 DEF Positions, WorkersHaveMet, AtWork, BoundsAreNear, Near, Passed, Shown
<1>3. LeftByNear'
  BY <1>1, <1>2 DEF LeftByNear, AtWork
<1>4. ShownIsNear'
  BY <1>1, <1>2, ShownKept
<1>5. SearchedIsNear'
  <2> SUFFICES ASSUME NEW u \in Visit, found'[u].done
               PROVE  /\ pc[u] = "answered"
                      /\ found'[u].names = InRange(D64Start(about[page[u]["d64_start"]]),
                                                   D64End(about[page[u]["d64_end"]]))
    BY <1>1 DEF SearchedIsNear
  <2>1. CASE u = v
    BY <2>1 DEF Search, TypeOK
  <2>2. CASE u # v
    <3>1. found'[u] = found[u]
      BY <2>2 DEF Search, TypeOK
    <3> QED
      BY <3>1 DEF SearchedIsNear
  <2> QED
    BY <2>1, <2>2
<1> QED
  BY <1>2, <1>3, <1>4, <1>5

LEMMA FatalRaceIInv == ASSUME IInv, TypeOK', FatalRace PROVE IInv'
<1> USE DEF IInv
<1>1. /\ pc \in [Visit -> Phase] /\ met' = met /\ page' = page /\ pageSpan' = pageSpan
      /\ found' = found /\ about' = about /\ at' = at /\ count' = count
  BY DEF FatalRace, TypeOK
<1>2. \A v \in Visit : pc'[v] = (IF v \in AtWork THEN "broken" ELSE pc[v])
  BY DEF FatalRace
<1>3. AtWork' = {}
  BY <1>2 DEF AtWork
<1>4. \A v \in Visit : Near(v)' = Near(v) /\ Shown(v)' \subseteq Shown(v)
  BY <1>1, <1>2 DEF Near, Shown
<1>5. \A c \in Elements(Counted) : params'[c] \notin Visit
  BY ServeAssumptions DEF FatalRace, NoPage, Key, ServeAssumption
<1>6. Positions'
  BY <1>1, <1>2 DEF Positions
<1>7. WorkersHaveMet' /\ LeftByNear'
  BY <1>3 DEF WorkersHaveMet, LeftByNear
<1>8. BoundsAreNear'
  BY <1>2, <1>5 DEF BoundsAreNear, AtWork
<1>9. ShownIsNear'
  BY <1>1, <1>4, ShownKept
<1>10. SearchedIsNear'
  BY <1>1, <1>2 DEF SearchedIsNear, AtWork
<1> QED
  BY <1>6, <1>7, <1>8, <1>9, <1>10

LEMMA StutterIInv == ASSUME IInv, UNCHANGED vars PROVE IInv'
<1> USE DEF IInv, vars, handler
<1>1. TypeOK' /\ Positions' /\ WorkersHaveMet' /\ BoundsAreNear'
  BY DEF TypeOK, Positions, WorkersHaveMet, AtWork, BoundsAreNear, Near
<1>2. LeftByNear'
  BY DEF LeftByNear, AtWork, Near, Passed
<1>3. ShownIsNear'
  BY DEF ShownIsNear, Near, Shown
<1>4. SearchedIsNear'
  BY DEF SearchedIsNear
<1> QED
  BY <1>1, <1>2, <1>3, <1>4

LEMMA StepIInv == ASSUME IInv, [Next]_vars PROVE IInv'
<1>1. TypeOK'
  BY StepTypeOK DEF IInv
<1> QED
  BY <1>1, ArriveIInv, WriteIInv, ReadBoundIInv, WriteCountIInv, RenderIInv, SearchIInv,
     FatalRaceIInv, StutterIInv DEF Next, Handle, Done

LEMMA AlwaysIInv == Spec => []IInv
<1>1. Init => IInv
  BY InitIInv
<1>2. IInv /\ [Next]_vars => IInv'
  BY StepIInv
<1> QED
  BY <1>1, <1>2, PTL DEF Spec

-----------------------------------------------------------------------------
(* What holds of every run, for any table, any requests and any number of  *)
(* them.                                                                   *)

\* Every variable keeps its type (of the handlers of cmd/serve/main.go).
THEOREM TypeCorrect == Spec => []TypeOK
<1>1. IInv => TypeOK
  BY DEF IInv
<1> QED
  BY <1>1, AlwaysIInv, PTL

\* However many requests share the map, a page shows what its own request or one that it
\* overlapped left there.
THEOREM Overlapping == Spec => []AnswersFromOverlapping
<1>1. IInv => AnswersFromOverlapping
  <2>1. \A v \in Visit : pc[v] = "answered" => Shown(v) = Key
    BY DEF Shown
  <2>2. Elements(Counted) \subseteq Key
    BY DEF Key
  <2> QED
    BY <2>1, <2>2 DEF IInv, ShownIsNear, AnswersFromOverlapping
<1> QED
  BY <1>1, AlwaysIInv, PTL

\* A search from a page no other request got into finds the names below what the page is
\* about, save the one the excluded end leaves out.
THEOREM SearchFinds == Spec => []SearchFindsNamesBelow
<1>1. IInv => SearchFindsNamesBelow
  <2> SUFFICES ASSUME IInv, NEW v \in Visit, found[v].done, \A u \in met[v] : about[u] = about[v]
               PROVE  found[v].names = (Below(about[v]) \ AtTheEnd(about[v])) \cup AtZero(about[v])
    BY DEF SearchFindsNamesBelow
  <2>1. /\ pc[v] = "answered"
        /\ found[v].names = InRange(D64Start(about[page[v]["d64_start"]]),
                                    D64End(about[page[v]["d64_end"]]))
    BY DEF IInv, SearchedIsNear
  <2>2. {"d64_start", "d64_end"} \subseteq Shown(v)
    BY <2>1, Sets DEF Shown, Key
  <2>3. page[v]["d64_start"] \in Near(v) /\ page[v]["d64_end"] \in Near(v)
    BY <2>2 DEF IInv, ShownIsNear
  <2>4. about[page[v]["d64_start"]] = about[v] /\ about[page[v]["d64_end"]] = about[v]
    BY <2>3 DEF Near
  <2>5. about[v] \in Request
    BY ServeAssumptions DEF ServeAssumption, IInv, TypeOK
  <2> QED
    BY <2>1, <2>4, <2>5, RangeIsBelow
<1> QED
  BY <1>1, AlwaysIInv, PTL

=============================================================================
