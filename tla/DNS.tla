--------------------------------- MODULE DNS ---------------------------------
(***************************************************************************)
(* The DNS prober (internal/probe/dns.go, resolver.go): which server is    *)
(* asked, what is made of the answer and how it is compared with           *)
(* dns_expected.  A record is [val, form]: the text it canonically is, as  *)
(* a number, and how it is written: "plain", "upper", "spaced" or          *)
(* "dotted".  An answer is an error or a sequence of records.              *)
(***************************************************************************)
EXTENDS Config, Functions

\* buildResolver: lookups it takes to put one query.  The system resolver and
\* a literal server are asked directly, a named server is looked up first.
buildResolver(server) == IF server.host = "name" THEN 2 ELSE 1

\* What net.Resolver returns: addresses, or one name, 0 being the root.
Fits(answer, opts) ==
    IF opts.qtype = "CNAME" THEN Len(answer.records) <= 1
                            ELSE \A r \in Values(answer.records) : r.val # 0

\* LookupIP's addresses as they are; LookupCNAME's name without its dot, and
\* nothing for the root.
resolve(qtype, records) ==
    CASE qtype # "CNAME" -> records
      [] qtype = "CNAME" /\ \A r \in Values(records) : r.val = 0 -> <<>>
      [] OTHER -> <<[records[1] EXCEPT !.form = IF @ = "dotted" THEN "plain" ELSE @]>>

\* Mutant: duplicates do not count.
matchExpectedAsSets(got, want) ==
    {got[i].val : i \in DOMAIN got} = {want[i].val : i \in DOMAIN want}

\* sort.Strings
Sorted(s) ==
    LET order == CHOOSE p \in Bijection(DOMAIN s, DOMAIN s) :
                    \A i, j \in DOMAIN s : i < j => s[p[i]] <= s[p[j]]
    IN  [i \in DOMAIN s |-> s[order[i]]]

\* matchExpected: case, blanks and a final dot removed, both sides sorted and
\* compared element by element.
matchExpected(got, want) ==
    LET normalize(s) == Sorted([i \in DOMAIN s |-> s[i].val])
    IN  normalize(got) = normalize(want)

\* DNSProber.Probe
probeDNS(opts, answer) ==
    LET qtype    == OrElse(opts.qtype, "", "A")
        records  == resolve(qtype, answer.records)
        failed   == answer.err \/ qtype \notin {"A", "AAAA", "CNAME"}
        expected == opts.expected # <<>>
        matched  == matchExpected(records, opts.expected)
    IN  [lookups   |-> buildResolver(opts.server),
         evaluated |-> ~failed /\ expected,
         matched   |-> ~failed /\ expected /\ records # <<>> /\ matched,
         success   |-> ~failed /\ records # <<>> /\ (expected => matched),
         err       |-> failed \/ records = <<>> \/ (expected /\ ~matched)]
=============================================================================
