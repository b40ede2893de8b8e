---------------------------- MODULE FirewallRules ----------------------------
(***************************************************************************)
(* How the rules of a cloud firewall are put together from a               *)
(* LinodeFirewall (processACL and its helpers in                           *)
(* linodefirewall_controller_helpers.go): the addresses of a rule and of   *)
(* the AddressSets it refers to are brought into CIDR notation, freed from *)
(* duplicates and cut into pieces that fit a rule of the API; too many     *)
(* pieces are refused.                                                     *)
(***************************************************************************)
EXTENDS Naturals, SequencesExt

CONSTANTS
    MaxIPsPerRule,  \* maxIPsPerFirewallRule
    MaxRules        \* maxRulesPerFirewall

ASSUME LimitsAssumption == MaxIPsPerRule \in Nat \ {0} /\ MaxRules \in Nat

Families == {"IPv4", "IPv6"}

\* An address as the user writes it: a host, alone or with its prefix length.
transformToCIDR(ip) == [ip EXCEPT !.cidr = TRUE]

\* The addresses of one family, from a rule and from its address sets, without
\* duplicates.
addressesOf(ips, family) == {transformToCIDR(ip) : ip \in {x \in ips : x.family = family}}

\* Full pieces are cut off while more than one piece is left.
chunkIPs(ips) ==
    LET count == IF ips = <<>> THEN 0 ELSE (Len(ips) - 1) \div MaxIPsPerRule
        full == [c \in 1..count |->
                    SubSeq(ips, (c - 1) * MaxIPsPerRule + 1, c * MaxIPsPerRule)]
    IN IF ips = <<>> THEN <<>>
       ELSE Append(full, SubSeq(ips, count * MaxIPsPerRule + 1, Len(ips)))

\* The rules of the API for one rule of the spec; r names the rule and its
\* direction.
processIPRules(r, ips) ==
    LET Pieces(family) ==
            LET chunks == chunkIPs(SetToSeq(addressesOf(ips, family))) IN
            [c \in 1..Len(chunks) |-> [rule |-> r, family |-> family, ips |-> chunks[c]]]
    IN Pieces("IPv4") \o Pieces("IPv6")

TooManyIPs == "errTooManyIPs"

\* A variant that counts the inbound rules only.
processACL_InboundOnly(inbound, outbound) ==
    LET rules == processIPRules("inbound", inbound) \o processIPRules("outbound", outbound) IN
    IF Len(processIPRules("inbound", inbound)) > MaxRules THEN TooManyIPs ELSE rules

\* An inbound rule of the spec and an outbound one, with all the addresses that
\* each of them has of its own or from address sets.
processACL(inbound, outbound) ==
    LET rules == processIPRules("inbound", inbound) \o processIPRules("outbound", outbound) IN
    IF Len(rules) > MaxRules THEN TooManyIPs ELSE rules

\* What the API accepts.
WithinLimits(rules) ==
    /\ Len(rules) <= MaxRules
    /\ \A c \in 1..Len(rules) : Len(rules[c].ips) \in 1..MaxIPsPerRule

\* What rules of the API let through: the hosts of each rule of the spec.
Covered(rules, r) ==
    {ip.host : ip \in UNION {ToSet(rules[c].ips) :
                                c \in {d \in 1..Len(rules) : rules[d].rule = r}}}

Hosts(ips) == {ip.host : ip \in ips}

=============================================================================
