----------------------------- MODULE TtlRewrite -----------------------------
(***************************************************************************)
(* dpi/TTL_INS/ttl_ins.c: redirect_bidir.c with the TTL of every TCP       *)
(* packet overwritten and the IPv4 checksum updated from the old one.      *)
(***************************************************************************)
EXTENDS TwoPort

(* The two entry points of the object file. *)
NewTtl == [ttl3 |-> 3, ttl10 |-> 10]

TtlEthernet ==
  \E program \in DOMAIN NewTtl : Enter(program, "ttl_ip")

TtlIpv4 ==
  Check("ttl_ip",
        \/ frame.len < EthLen + IpLen
        \/ frame.ihl < 5
        \/ frame.len < EthLen + 4 * frame.ihl,
        "DROP", "ttl")

(* Mutant: the carry of the first fold is not folded in. *)
FoldedOnce(check, old, new) ==
  Complement(Fold(Complement(check) + Complement(old) + new))

(* The checksum after a header word changed from old to new. *)
Updated(check, old, new) ==
  Complement(Fold(Fold(Complement(check) + Complement(old) + new)))

(* rewrite_ttl *)
WithTtl(f, ttl) ==
  [f EXCEPT !.ttl = ttl,
            !.check = Updated(@, TtlWord(f.ttl, f.proto), TtlWord(ttl, f.proto))]

RewriteTtl ==
  Rewrite("ttl",
          IF frame.proto = TCP THEN WithTtl(frame, NewTtl[prog]) ELSE frame,
          "forward")

Ttl == TtlEthernet \/ TtlIpv4 \/ RewriteTtl
=============================================================================
