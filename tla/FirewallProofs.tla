---------------------------- MODULE FirewallProofs ----------------------------
(***************************************************************************)
(* Theorems about Firewall, for any number of boots, mode switches,        *)
(* failures and, unless it says otherwise, concurrent runs of the script.  *)
(***************************************************************************)
EXTENDS Firewall, SequenceTheorems, TLAPS

-----------------------------------------------------------------------------
(* The script as a table: which command is at which place                  *)

Verdicts == {"ACCEPT", "REJECT", "DROP"}
RuleSet == [match : SUBSET Packet, est : BOOLEAN, verdict : Verdicts]
Ops == {"lock", "mode", "squid", "check", "record", "finish"}
Commands == [op : Ops] \union [op : {"policy", "flush"}, table : Tables]
            \union [op : {"append"}, table : Tables, rule : RuleSet]

\* How many commands depend on the gateway, on the mode and on the boot.
Gate == IF HasGateway THEN 1 ELSE 0
Opens(mode) == IF mode = "open" THEN 1 ELSE 0
Locks(kind) == IF kind = "boot" THEN 1 ELSE 0

LEMMA Offsets ==
  /\ Gate \in 0 .. 1
  /\ \A mode : Opens(mode) \in 0 .. 1
  /\ \A kind : Locks(kind) \in 0 .. 1
  BY DEF Gate, Opens, Locks

LEMMA RuleTypes ==
  /\ NdpDns6 \in RuleSet /\ Dns \in RuleSet /\ UdpDrop \in RuleSet
  /\ AgentToSquid \in RuleSet /\ GatewayReject \in RuleSet
  /\ OpenAccept \in RuleSet /\ AnthropicCidr \in RuleSet
  /\ RejectAll \in RuleSet /\ Established \in RuleSet
  /\ \A t \in Tables : /\ Lo(t) \in RuleSet /\ RootAccept(t) \in RuleSet
                       /\ AptAccept(t) \in RuleSet /\ ProxyAccept(t) \in RuleSet
                       /\ GuardRule(t) \in RuleSet
  BY DEF NdpDns6, Dns, UdpDrop, AgentToSquid, GatewayReject, OpenAccept, AnthropicCidr,
     RejectAll, Established, Lo, RootAccept, AptAccept, ProxyAccept, GuardRule, Rule,
     RuleSet, Verdicts, Packet, Agent4, Others4, Agent6, Tables

LEMMA CommandTypes ==
  /\ \A op \in Ops : Cmd(op) \in Commands
  /\ \A t \in Tables :
       /\ DropPolicy(t) \in Commands /\ Flush(t) \in Commands
       /\ \A rule \in RuleSet : Add(t, rule) \in Commands
  BY DEF Cmd, DropPolicy, Flush, Add, Commands, Ops

\* Opaque to the provers, which are told what they need of it.
Join(s, t) == s \o t

LEMMA Joined ==
  ASSUME NEW s \in Seq(Commands), NEW t \in Seq(Commands)
  PROVE  /\ Join(s, t) \in Seq(Commands)
         /\ Len(Join(s, t)) = Len(s) + Len(t)
         /\ \A i \in 1 .. Len(s) : Join(s, t)[i] = s[i]
         /\ \A i \in 1 .. Len(t) : Join(s, t)[Len(s) + i] = t[i]
<1>1. /\ s \o t \in Seq(Commands) /\ Len(s \o t) = Len(s) + Len(t)
      /\ \A i \in 1 .. Len(s) + Len(t) :
           (s \o t)[i] = IF i <= Len(s) THEN s[i] ELSE t[i - Len(s)]
  BY ConcatProperties
<1>2. \A i \in 1 .. Len(s) + Len(t) :
        Join(s, t)[i] = IF i <= Len(s) THEN s[i] ELSE t[i - Len(s)]
  BY <1>1 DEF Join
<1>3. Len(s) \in Nat /\ Len(t) \in Nat
  OBVIOUS
<1>4. ASSUME NEW i \in 1 .. Len(t) PROVE Join(s, t)[Len(s) + i] = t[i]
  <2>1. /\ Len(s) + i \in 1 .. Len(s) + Len(t) /\ ~(Len(s) + i <= Len(s))
        /\ (Len(s) + i) - Len(s) = i
    BY <1>3
  <2> QED
    BY <1>2, <2>1
<1>5. \A i \in 1 .. Len(s) : i \in 1 .. Len(s) + Len(t) /\ i <= Len(s)
  BY <1>3
<1>6. \A i \in 1 .. Len(s) : Join(s, t)[i] = s[i]
  BY <1>2, <1>5
<1>7. Join(s, t) \in Seq(Commands) /\ Len(Join(s, t)) = Len(s) + Len(t)
  BY <1>1 DEF Join
<1> QED
  BY <1>4, <1>6, <1>7

LEMMA PreludeTable ==
  ASSUME NEW t \in Tables
  PROVE  /\ Prelude(t) \in Seq(Commands) /\ Len(Prelude(t)) = 4
         /\ Prelude(t)[1] = DropPolicy(t) /\ Prelude(t)[2] = Flush(t)
         /\ Prelude(t)[3] = Add(t, Lo(t)) /\ Prelude(t)[4] = Add(t, Established)
  BY RuleTypes, CommandTypes DEF Prelude

LEMMA PrivilegedTable ==
  ASSUME NEW t \in Tables
  PROVE  /\ Privileged(t) \in Seq(Commands) /\ Len(Privileged(t)) = 3
         /\ Privileged(t)[1] = Add(t, RootAccept(t))
         /\ Privileged(t)[2] = Add(t, AptAccept(t))
         /\ Privileged(t)[3] = Add(t, ProxyAccept(t))
  BY RuleTypes, CommandTypes DEF Privileged

LEMMA RulesetTable ==
  ASSUME NEW mode \in Modes
  PROVE  /\ Ruleset(mode) \in Seq(Commands) /\ Len(Ruleset(mode)) = 21 + Gate + Opens(mode)
         /\ Ruleset(mode)[1] = DropPolicy("iptables")
         /\ Ruleset(mode)[2] = Flush("iptables")
         /\ Ruleset(mode)[3] = Add("iptables", Lo("iptables"))
         /\ Ruleset(mode)[4] = Add("iptables", Established)
         /\ Ruleset(mode)[5] = DropPolicy("ip6tables")
         /\ Ruleset(mode)[6] = Flush("ip6tables")
         /\ Ruleset(mode)[7] = Add("ip6tables", Lo("ip6tables"))
         /\ Ruleset(mode)[8] = Add("ip6tables", Established)
         /\ Ruleset(mode)[9] = Add("ip6tables", NdpDns6)
         /\ Ruleset(mode)[10] = Add("iptables", Dns)
         /\ Ruleset(mode)[11] = Add("iptables", UdpDrop)
         /\ Ruleset(mode)[12] = Add("iptables", AgentToSquid)
         /\ Gate = 1 => Ruleset(mode)[13] = Add("iptables", GatewayReject)
         /\ Opens(mode) = 1 => Ruleset(mode)[13 + Gate] = Add("iptables", OpenAccept)
         /\ Ruleset(mode)[13 + Gate + Opens(mode)] = Add("iptables", AnthropicCidr)
         /\ Ruleset(mode)[14 + Gate + Opens(mode)] = Add("iptables", RootAccept("iptables"))
         /\ Ruleset(mode)[15 + Gate + Opens(mode)] = Add("iptables", AptAccept("iptables"))
         /\ Ruleset(mode)[16 + Gate + Opens(mode)] = Add("iptables", ProxyAccept("iptables"))
         /\ Ruleset(mode)[17 + Gate + Opens(mode)] = Add("ip6tables", RootAccept("ip6tables"))
         /\ Ruleset(mode)[18 + Gate + Opens(mode)] = Add("ip6tables", AptAccept("ip6tables"))
         /\ Ruleset(mode)[19 + Gate + Opens(mode)] = Add("ip6tables", ProxyAccept("ip6tables"))
         /\ Ruleset(mode)[20 + Gate + Opens(mode)] = Add("iptables", RejectAll)
         /\ Ruleset(mode)[21 + Gate + Opens(mode)] = Add("ip6tables", RejectAll)
<1> DEFINE g == Gate  o == Opens(mode)
<1>a. g \in 0 .. 1 /\ o \in 0 .. 1
  BY Offsets
<1>b. g = Gate /\ o = Opens(mode)
  OBVIOUS
<1> USE <1>a
<1> HIDE DEF g, o
<1> DEFINE
  mid == <<Add("ip6tables", NdpDns6), Add("iptables", Dns),
           Add("iptables", UdpDrop), Add("iptables", AgentToSquid)>>
  gate == If(HasGateway, <<Add("iptables", GatewayReject)>>)
  loose == If(mode = "open", <<Add("iptables", OpenAccept)>>)
  cidr == <<Add("iptables", AnthropicCidr)>>
  last2 == <<Add("iptables", RejectAll), Add("ip6tables", RejectAll)>>
  s1 == Join(Prelude("iptables"), Prelude("ip6tables"))
  s2 == Join(s1, mid)
  s3 == Join(s2, gate)
  s4 == Join(s3, loose)
  s5 == Join(s4, cidr)
  s6 == Join(s5, Privileged("iptables"))
  s7 == Join(s6, Privileged("ip6tables"))
  s8 == Join(s7, last2)
<1>0. "iptables" \in Tables /\ "ip6tables" \in Tables
  BY DEF Tables
<1>1. /\ mid \in Seq(Commands) /\ Len(mid) = 4
      /\ mid[1] = Add("ip6tables", NdpDns6) /\ mid[2] = Add("iptables", Dns)
      /\ mid[3] = Add("iptables", UdpDrop) /\ mid[4] = Add("iptables", AgentToSquid)
  BY <1>0, RuleTypes, CommandTypes
<1>2. /\ gate \in Seq(Commands) /\ Len(gate) = g
      /\ g = 1 => gate[1] = Add("iptables", GatewayReject)
  BY <1>0, <1>b, RuleTypes, CommandTypes DEF If, Gate
<1>3. /\ loose \in Seq(Commands) /\ Len(loose) = o
      /\ o = 1 => loose[1] = Add("iptables", OpenAccept)
  BY <1>0, <1>b, RuleTypes, CommandTypes DEF If, Opens
<1>4. cidr \in Seq(Commands) /\ Len(cidr) = 1 /\ cidr[1] = Add("iptables", AnthropicCidr)
  BY <1>0, RuleTypes, CommandTypes
<1>5. /\ last2 \in Seq(Commands) /\ Len(last2) = 2
      /\ last2[1] = Add("iptables", RejectAll) /\ last2[2] = Add("ip6tables", RejectAll)
  BY <1>0, RuleTypes, CommandTypes
<1>6. Ruleset(mode) = s8
  BY DEF Ruleset, Join
<1> HIDE DEF mid, gate, loose, cidr, last2
<1>11. /\ s1 \in Seq(Commands) /\ Len(s1) = 8
       /\ s1[1] = DropPolicy("iptables") /\ s1[2] = Flush("iptables")
       /\ s1[3] = Add("iptables", Lo("iptables")) /\ s1[4] = Add("iptables", Established)
       /\ s1[5] = DropPolicy("ip6tables") /\ s1[6] = Flush("ip6tables")
       /\ s1[7] = Add("ip6tables", Lo("ip6tables")) /\ s1[8] = Add("ip6tables", Established)
  <2>1. /\ s1 \in Seq(Commands) /\ Len(s1) = 4 + 4
        /\ \A i \in 1 .. 4 : s1[i] = Prelude("iptables")[i]
        /\ \A i \in 1 .. 4 : s1[4 + i] = Prelude("ip6tables")[i]
    <3>1. Prelude("iptables") \in Seq(Commands) /\ Prelude("ip6tables") \in Seq(Commands)
      BY <1>0, PreludeTable
    <3>2. s1 \in Seq(Commands) /\ Len(s1) = Len(Prelude("iptables")) + Len(Prelude("ip6tables"))
      BY <3>1, Joined
    <3>3. \A i \in 1 .. Len(Prelude("iptables")) : s1[i] = Prelude("iptables")[i]
      BY <3>1, Joined
    <3>4. \A i \in 1 .. Len(Prelude("ip6tables")) :
            s1[Len(Prelude("iptables")) + i] = Prelude("ip6tables")[i]
      BY <3>1, Joined
    <3> HIDE DEF s1, s2, s3, s4, s5, s6, s7, s8
    <3> QED
      BY <1>0, PreludeTable, <3>2, <3>3, <3>4
  <2>2. s1[5] = s1[4 + 1] /\ s1[6] = s1[4 + 2] /\ s1[7] = s1[4 + 3] /\ s1[8] = s1[4 + 4]
    OBVIOUS
  <2> HIDE DEF s1, s2, s3, s4, s5, s6, s7, s8
  <2> QED
    BY <1>0, <2>1, <2>2, PreludeTable
<1>12. /\ s2 \in Seq(Commands) /\ Len(s2) = 12
       /\ \A i \in 1 .. 8 : s2[i] = s1[i]
       /\ s2[9] = Add("ip6tables", NdpDns6) /\ s2[10] = Add("iptables", Dns)
       /\ s2[11] = Add("iptables", UdpDrop) /\ s2[12] = Add("iptables", AgentToSquid)
  <2>1. /\ s2 \in Seq(Commands) /\ Len(s2) = 8 + 4
        /\ \A i \in 1 .. 8 : s2[i] = s1[i]
        /\ \A i \in 1 .. 4 : s2[8 + i] = mid[i]
    <3>1. s1 \in Seq(Commands) /\ mid \in Seq(Commands)
      BY <1>1, <1>11
    <3>2. s2 \in Seq(Commands) /\ Len(s2) = Len(s1) + Len(mid)
      BY <3>1, Joined
    <3>3. \A i \in 1 .. Len(s1) : s2[i] = s1[i]
      BY <3>1, Joined
    <3>4. \A i \in 1 .. Len(mid) : s2[Len(s1) + i] = mid[i]
      BY <3>1, Joined
    <3> HIDE DEF s1, s2, s3, s4, s5, s6, s7, s8
    <3> QED
      BY <1>1, <1>11, <3>2, <3>3, <3>4
  <2>2. s2[9] = s2[8 + 1] /\ s2[10] = s2[8 + 2] /\ s2[11] = s2[8 + 3] /\ s2[12] = s2[8 + 4]
    OBVIOUS
  <2> HIDE DEF s1, s2, s3, s4, s5, s6, s7, s8
  <2> QED
    BY <1>1, <2>1, <2>2
<1>13. /\ s3 \in Seq(Commands) /\ Len(s3) = 12 + g
       /\ \A i \in 1 .. 12 : s3[i] = s2[i]
       /\ g = 1 => s3[13] = Add("iptables", GatewayReject)
  <2>1. /\ s3 \in Seq(Commands) /\ Len(s3) = 12 + g
        /\ \A i \in 1 .. 12 : s3[i] = s2[i]
        /\ \A i \in 1 .. g : s3[12 + i] = gate[i]
    <3>1. s2 \in Seq(Commands) /\ gate \in Seq(Commands)
      BY <1>2, <1>12
    <3>2. s3 \in Seq(Commands) /\ Len(s3) = Len(s2) + Len(gate)
      BY <3>1, Joined
    <3>3. \A i \in 1 .. Len(s2) : s3[i] = s2[i]
      BY <3>1, Joined
    <3>4. \A i \in 1 .. Len(gate) : s3[Len(s2) + i] = gate[i]
      BY <3>1, Joined
    <3> HIDE DEF s1, s2, s3, s4, s5, s6, s7, s8
    <3> QED
      BY <1>2, <1>12, <3>2, <3>3, <3>4
  <2>2. s3[13] = s3[12 + 1]
    OBVIOUS
  <2> HIDE DEF s1, s2, s3, s4, s5, s6, s7, s8
  <2> QED
    BY <1>2, <2>1, <2>2
<1>14. /\ s4 \in Seq(Commands) /\ Len(s4) = 12 + g + o
       /\ \A i \in 1 .. 12 + g : s4[i] = s3[i]
       /\ o = 1 => s4[13 + g] = Add("iptables", OpenAccept)
  <2>1. /\ s4 \in Seq(Commands) /\ Len(s4) = 12 + g + o
        /\ \A i \in 1 .. 12 + g : s4[i] = s3[i]
        /\ \A i \in 1 .. o : s4[12 + g + i] = loose[i]
    <3>1. s3 \in Seq(Commands) /\ loose \in Seq(Commands)
      BY <1>3, <1>13
    <3>2. s4 \in Seq(Commands) /\ Len(s4) = Len(s3) + Len(loose)
      BY <3>1, Joined
    <3>3. \A i \in 1 .. Len(s3) : s4[i] = s3[i]
      BY <3>1, Joined
    <3>4. \A i \in 1 .. Len(loose) : s4[Len(s3) + i] = loose[i]
      BY <3>1, Joined
    <3> HIDE DEF s1, s2, s3, s4, s5, s6, s7, s8
    <3> QED
      BY <1>3, <1>13, <3>2, <3>3, <3>4
  <2>2. 12 + g + 1 = 13 + g
    OBVIOUS
  <2> HIDE DEF s1, s2, s3, s4, s5, s6, s7, s8
  <2> QED
    BY <1>3, <2>1, <2>2
<1>15. /\ s5 \in Seq(Commands) /\ Len(s5) = 13 + g + o
       /\ \A i \in 1 .. 12 + g + o : s5[i] = s4[i]
       /\ s5[13 + g + o] = Add("iptables", AnthropicCidr)
  <2>1. /\ s5 \in Seq(Commands) /\ Len(s5) = 12 + g + o + 1
        /\ \A i \in 1 .. 12 + g + o : s5[i] = s4[i]
        /\ \A i \in 1 .. 1 : s5[12 + g + o + i] = cidr[i]
    <3>1. s4 \in Seq(Commands) /\ cidr \in Seq(Commands)
      BY <1>4, <1>14
    <3>2. s5 \in Seq(Commands) /\ Len(s5) = Len(s4) + Len(cidr)
      BY <3>1, Joined
    <3>3. \A i \in 1 .. Len(s4) : s5[i] = s4[i]
      BY <3>1, Joined
    <3>4. \A i \in 1 .. Len(cidr) : s5[Len(s4) + i] = cidr[i]
      BY <3>1, Joined
    <3> HIDE DEF s1, s2, s3, s4, s5, s6, s7, s8
    <3> QED
      BY <1>4, <1>14, <3>2, <3>3, <3>4
  <2>2. 12 + g + o + 1 = 13 + g + o
    OBVIOUS
  <2> HIDE DEF s1, s2, s3, s4, s5, s6, s7, s8
  <2> QED
    BY <1>4, <2>1, <2>2
<1>16. /\ s6 \in Seq(Commands) /\ Len(s6) = 16 + g + o
       /\ \A i \in 1 .. 13 + g + o : s6[i] = s5[i]
       /\ s6[14 + g + o] = Add("iptables", RootAccept("iptables"))
       /\ s6[15 + g + o] = Add("iptables", AptAccept("iptables"))
       /\ s6[16 + g + o] = Add("iptables", ProxyAccept("iptables"))
  <2>1. /\ s6 \in Seq(Commands) /\ Len(s6) = 13 + g + o + 3
        /\ \A i \in 1 .. 13 + g + o : s6[i] = s5[i]
        /\ \A i \in 1 .. 3 : s6[13 + g + o + i] = Privileged("iptables")[i]
    <3>1. s5 \in Seq(Commands) /\ Privileged("iptables") \in Seq(Commands)
      BY <1>0, <1>15, PrivilegedTable
    <3>2. s6 \in Seq(Commands) /\ Len(s6) = Len(s5) + Len(Privileged("iptables"))
      BY <3>1, Joined
    <3>3. \A i \in 1 .. Len(s5) : s6[i] = s5[i]
      BY <3>1, Joined
    <3>4. \A i \in 1 .. Len(Privileged("iptables")) : s6[Len(s5) + i] = Privileged("iptables")[i]
      BY <3>1, Joined
    <3> HIDE DEF s1, s2, s3, s4, s5, s6, s7, s8
    <3> QED
      BY <1>0, <1>15, PrivilegedTable, <3>2, <3>3, <3>4
  <2>2. /\ 13 + g + o + 1 = 14 + g + o /\ 13 + g + o + 2 = 15 + g + o
        /\ 13 + g + o + 3 = 16 + g + o
    OBVIOUS
  <2> HIDE DEF s1, s2, s3, s4, s5, s6, s7, s8
  <2>3. /\ s6[13 + g + o + 1] = Privileged("iptables")[1]
        /\ s6[13 + g + o + 2] = Privileged("iptables")[2]
        /\ s6[13 + g + o + 3] = Privileged("iptables")[3]
    BY <2>1
  <2>4. 13 + g + o + 3 = 16 + g + o
    OBVIOUS
  <2> QED
    BY <1>0, <2>1, <2>2, <2>3, <2>4, PrivilegedTable
<1>17. /\ s7 \in Seq(Commands) /\ Len(s7) = 19 + g + o
       /\ \A i \in 1 .. 16 + g + o : s7[i] = s6[i]
       /\ s7[17 + g + o] = Add("ip6tables", RootAccept("ip6tables"))
       /\ s7[18 + g + o] = Add("ip6tables", AptAccept("ip6tables"))
       /\ s7[19 + g + o] = Add("ip6tables", ProxyAccept("ip6tables"))
  <2>1. /\ s7 \in Seq(Commands) /\ Len(s7) = 16 + g + o + 3
        /\ \A i \in 1 .. 16 + g + o : s7[i] = s6[i]
        /\ \A i \in 1 .. 3 : s7[16 + g + o + i] = Privileged("ip6tables")[i]
    <3>1. s6 \in Seq(Commands) /\ Privileged("ip6tables") \in Seq(Commands)
      BY <1>0, <1>16, PrivilegedTable
    <3>2. s7 \in Seq(Commands) /\ Len(s7) = Len(s6) + Len(Privileged("ip6tables"))
      BY <3>1, Joined
    <3>3. \A i \in 1 .. Len(s6) : s7[i] = s6[i]
      BY <3>1, Joined
    <3>4. \A i \in 1 .. Len(Privileged("ip6tables")) : s7[Len(s6) + i] = Privileged("ip6tables")[i]
      BY <3>1, Joined
    <3> HIDE DEF s1, s2, s3, s4, s5, s6, s7, s8
    <3> QED
      BY <1>0, <1>16, PrivilegedTable, <3>2, <3>3, <3>4
  <2>2. /\ 16 + g + o + 1 = 17 + g + o /\ 16 + g + o + 2 = 18 + g + o
        /\ 16 + g + o + 3 = 19 + g + o
    OBVIOUS
  <2> HIDE DEF s1, s2, s3, s4, s5, s6, s7, s8
  <2> QED
    BY <1>0, <2>1, <2>2, PrivilegedTable
<1>18. /\ s8 \in Seq(Commands) /\ Len(s8) = 21 + g + o
       /\ \A i \in 1 .. 19 + g + o : s8[i] = s7[i]
       /\ s8[20 + g + o] = Add("iptables", RejectAll)
       /\ s8[21 + g + o] = Add("ip6tables", RejectAll)
  <2>1. /\ s8 \in Seq(Commands) /\ Len(s8) = 19 + g + o + 2
        /\ \A i \in 1 .. 19 + g + o : s8[i] = s7[i]
        /\ \A i \in 1 .. 2 : s8[19 + g + o + i] = last2[i]
    <3>1. s7 \in Seq(Commands) /\ last2 \in Seq(Commands)
      BY <1>5, <1>17
    <3>2. s8 \in Seq(Commands) /\ Len(s8) = Len(s7) + Len(last2)
      BY <3>1, Joined
    <3>3. \A i \in 1 .. Len(s7) : s8[i] = s7[i]
      BY <3>1, Joined
    <3>4. \A i \in 1 .. Len(last2) : s8[Len(s7) + i] = last2[i]
      BY <3>1, Joined
    <3> HIDE DEF s1, s2, s3, s4, s5, s6, s7, s8
    <3> QED
      BY <1>5, <1>17, <3>2, <3>3, <3>4
  <2>2. 19 + g + o + 1 = 20 + g + o /\ 19 + g + o + 2 = 21 + g + o
    OBVIOUS
  <2> HIDE DEF s1, s2, s3, s4, s5, s6, s7, s8
  <2> QED
    BY <1>5, <2>1, <2>2
<1> HIDE DEF s1, s2, s3, s4, s5, s6, s7, s8
<1>19. \A i \in 1 .. 16 + g + o : s8[i] = s6[i]
  BY <1>17, <1>18
<1>20. \A i \in 1 .. 13 + g + o : s8[i] = s5[i]
  BY <1>16, <1>19
<1>21. \A i \in 1 .. 12 + g + o : s8[i] = s4[i]
  BY <1>15, <1>20
<1>22. \A i \in 1 .. 12 + g : s8[i] = s3[i]
  BY <1>14, <1>21
<1>23. \A i \in 1 .. 12 : s8[i] = s2[i]
  BY <1>13, <1>22
<1>24. \A i \in 1 .. 8 : s8[i] = s1[i]
  BY <1>12, <1>23
<1>25. /\ g = 1 => s8[13] = s3[13]
       /\ o = 1 => s8[13 + g] = s4[13 + g]
       /\ s8[13 + g + o] = s5[13 + g + o]
  BY <1>20, <1>21, <1>22
<1>26. /\ s8[14 + g + o] = s6[14 + g + o] /\ s8[15 + g + o] = s6[15 + g + o]
       /\ s8[16 + g + o] = s6[16 + g + o]
       /\ s8[17 + g + o] = s7[17 + g + o] /\ s8[18 + g + o] = s7[18 + g + o]
       /\ s8[19 + g + o] = s7[19 + g + o]
  BY <1>18, <1>19
<1>27. s8 \in Seq(Commands) /\ Len(s8) = 21 + g + o
  BY <1>18
<1>28. /\ s8[1] = s1[1] /\ s8[2] = s1[2] /\ s8[3] = s1[3] /\ s8[4] = s1[4]
       /\ s8[5] = s1[5] /\ s8[6] = s1[6] /\ s8[7] = s1[7] /\ s8[8] = s1[8]
       /\ s8[9] = s2[9] /\ s8[10] = s2[10] /\ s8[11] = s2[11] /\ s8[12] = s2[12]
  BY <1>23, <1>24
<1> QED
  BY <1>b, <1>6, <1>11, <1>12, <1>13, <1>14, <1>15, <1>16, <1>17, <1>18, <1>25, <1>26, <1>27, <1>28

LEMMA ScriptTable ==
  ASSUME NEW kind \in {"boot", "switch"}, NEW mode \in Modes
  PROVE  /\ Script(kind, mode) \in Seq(Commands)
         /\ Len(Script(kind, mode)) = 25 + Gate + Opens(mode) + Locks(kind) + Locks(kind)
         /\ Locks(kind) = 1 => Script(kind, mode)[1] = Cmd("lock")
         /\ Script(kind, mode)[Locks(kind) + 1] = Cmd("mode")
         /\ Script(kind, mode)[Locks(kind) + 2] = Cmd("squid")
         /\ \A i \in 1 .. 21 + Gate + Opens(mode) :
              Script(kind, mode)[Locks(kind) + 2 + i] = Ruleset(mode)[i]
         /\ Script(kind, mode)[24 + Gate + Opens(mode) + Locks(kind)] = Cmd("check")
         /\ Script(kind, mode)[25 + Gate + Opens(mode) + Locks(kind)] = Cmd("record")
         /\ Locks(kind) = 1 => Script(kind, mode)[27 + Gate + Opens(mode)] = Cmd("finish")
<1> DEFINE g == Gate  o == Opens(mode)  b == Locks(kind)
<1>a. g \in 0 .. 1 /\ o \in 0 .. 1 /\ b \in 0 .. 1
  BY Offsets
<1>b. g = Gate /\ o = Opens(mode) /\ b = Locks(kind)
  OBVIOUS
<1> USE <1>a
<1> HIDE DEF g, o, b
<1> DEFINE
  lock == If(kind = "boot", <<Cmd("lock")>>)
  mid == <<Cmd("mode"), Cmd("squid")>>
  rules == Ruleset(mode)
  end == <<Cmd("check"), Cmd("record")>>
  finish == If(kind = "boot", <<Cmd("finish")>>)
  s1 == Join(lock, mid)
  s2 == Join(s1, rules)
  s3 == Join(s2, end)
  s4 == Join(s3, finish)
<1>0. \A op \in Ops : Cmd(op) \in Commands
  BY CommandTypes
<1>1. lock \in Seq(Commands) /\ Len(lock) = b /\ (b = 1 => lock[1] = Cmd("lock"))
  BY <1>0, <1>b DEF If, Locks, Ops
<1>2. /\ mid \in Seq(Commands) /\ Len(mid) = 2
      /\ mid[1] = Cmd("mode") /\ mid[2] = Cmd("squid")
  BY <1>0 DEF Ops
<1>3. rules \in Seq(Commands) /\ Len(rules) = 21 + g + o
  BY <1>b, RulesetTable
<1>4. /\ end \in Seq(Commands) /\ Len(end) = 2
      /\ end[1] = Cmd("check") /\ end[2] = Cmd("record")
  BY <1>0 DEF Ops
<1>5. finish \in Seq(Commands) /\ Len(finish) = b /\ (b = 1 => finish[1] = Cmd("finish"))
  BY <1>0, <1>b DEF If, Locks, Ops
<1>6. Script(kind, mode) = s4
  BY DEF Script, Join
<1> HIDE DEF lock, mid, rules, end, finish
<1>7. /\ s1 \in Seq(Commands) /\ Len(s1) = b + 2
      /\ \A i \in 1 .. b : s1[i] = lock[i]
      /\ \A i \in 1 .. 2 : s1[b + i] = mid[i]
  <2>1. s1 \in Seq(Commands) /\ Len(s1) = Len(lock) + Len(mid)
    BY <1>1, <1>2, Joined
  <2>2. \A i \in 1 .. Len(lock) : s1[i] = lock[i]
    BY <1>1, <1>2, Joined
  <2>3. \A i \in 1 .. Len(mid) : s1[Len(lock) + i] = mid[i]
    BY <1>1, <1>2, Joined
  <2> HIDE DEF s1, s2, s3, s4
  <2> QED
    BY <1>1, <1>2, <2>1, <2>2, <2>3
<1>8. /\ s2 \in Seq(Commands) /\ Len(s2) = b + 2 + (21 + g + o)
      /\ \A i \in 1 .. b + 2 : s2[i] = s1[i]
      /\ \A i \in 1 .. 21 + g + o : s2[b + 2 + i] = rules[i]
  <2>1. s2 \in Seq(Commands) /\ Len(s2) = Len(s1) + Len(rules)
    BY <1>3, <1>7, Joined
  <2>2. \A i \in 1 .. Len(s1) : s2[i] = s1[i]
    BY <1>3, <1>7, Joined
  <2>3. \A i \in 1 .. Len(rules) : s2[Len(s1) + i] = rules[i]
    BY <1>3, <1>7, Joined
  <2> HIDE DEF s1, s2, s3, s4
  <2> QED
    BY <1>3, <1>7, <2>1, <2>2, <2>3
<1>9. /\ s3 \in Seq(Commands) /\ Len(s3) = 25 + g + o + b
      /\ \A i \in 1 .. 23 + g + o + b : s3[i] = s2[i]
      /\ \A i \in 1 .. 2 : s3[23 + g + o + b + i] = end[i]
  <2>1. s3 \in Seq(Commands) /\ Len(s3) = Len(s2) + Len(end)
    BY <1>4, <1>8, Joined
  <2>2. \A i \in 1 .. Len(s2) : s3[i] = s2[i]
    BY <1>4, <1>8, Joined
  <2>3. \A i \in 1 .. Len(end) : s3[Len(s2) + i] = end[i]
    BY <1>4, <1>8, Joined
  <2> HIDE DEF s1, s2, s3, s4
  <2>4. Len(s2) = 23 + g + o + b
    BY <1>8
  <2> QED
    BY <1>4, <2>1, <2>2, <2>3, <2>4
<1>10. /\ s4 \in Seq(Commands) /\ Len(s4) = 25 + g + o + b + b
       /\ \A i \in 1 .. 25 + g + o + b : s4[i] = s3[i]
       /\ \A i \in 1 .. b : s4[25 + g + o + b + i] = finish[i]
  <2>1. s4 \in Seq(Commands) /\ Len(s4) = Len(s3) + Len(finish)
    BY <1>5, <1>9, Joined
  <2>2. \A i \in 1 .. Len(s3) : s4[i] = s3[i]
    BY <1>5, <1>9, Joined
  <2>3. \A i \in 1 .. Len(finish) : s4[Len(s3) + i] = finish[i]
    BY <1>5, <1>9, Joined
  <2> HIDE DEF s1, s2, s3, s4
  <2> QED
    BY <1>5, <1>9, <2>1, <2>2, <2>3
<1> HIDE DEF s1, s2, s3, s4
<1>11. \A i \in 1 .. 23 + g + o + b : s4[i] = s2[i]
  BY <1>9, <1>10
<1>12. \A i \in 1 .. b + 2 : s4[i] = s1[i]
  BY <1>8, <1>11
<1>13. /\ b = 1 => s4[1] = Cmd("lock")
       /\ s4[b + 1] = Cmd("mode") /\ s4[b + 2] = Cmd("squid")
  BY <1>1, <1>2, <1>7, <1>12
<1>14. \A i \in 1 .. 21 + g + o : s4[b + 2 + i] = rules[i]
  <2> TAKE i \in 1 .. 21 + g + o
  <2>1. b + 2 + i \in 1 .. 23 + g + o + b
    OBVIOUS
  <2> QED
    BY <1>8, <1>11, <2>1
<1>15. /\ s4[24 + g + o + b] = Cmd("check") /\ s4[25 + g + o + b] = Cmd("record")
  <2>1. s3[23 + g + o + b + 1] = end[1] /\ s3[23 + g + o + b + 2] = end[2]
    BY <1>9
  <2>2. 23 + g + o + b + 1 = 24 + g + o + b /\ 23 + g + o + b + 2 = 25 + g + o + b
    OBVIOUS
  <2>3. 24 + g + o + b \in 1 .. 25 + g + o + b /\ 25 + g + o + b \in 1 .. 25 + g + o + b
    OBVIOUS
  <2>4. s4[24 + g + o + b] = s3[24 + g + o + b] /\ s4[25 + g + o + b] = s3[25 + g + o + b]
    BY <1>10, <2>3
  <2> QED
    BY <1>4, <2>1, <2>2, <2>4
<1>16. b = 1 => s4[27 + g + o] = Cmd("finish")
  <2> SUFFICES ASSUME b = 1 PROVE s4[27 + g + o] = Cmd("finish")
    OBVIOUS
  <2>1. 27 + g + o = 25 + g + o + b + 1
    OBVIOUS
  <2> QED
    BY <1>5, <1>10, <2>1
<1> QED
  BY <1>b, <1>6, <1>10, <1>13, <1>14, <1>15, <1>16 DEF rules

(* Of the rules that accept, only mode=open's matches what the agent must  *)
(* not reach.                                                              *)
Tame(rule) == rule.verdict = "ACCEPT" => rule.match \intersect Tracked = {}

LEMMA TameRules ==
  /\ Tame(NdpDns6) /\ Tame(Dns) /\ Tame(UdpDrop) /\ Tame(AgentToSquid)
  /\ Tame(GatewayReject) /\ Tame(AnthropicCidr) /\ Tame(RejectAll) /\ Tame(Established)
  /\ \A t \in Tables : /\ Tame(Lo(t)) /\ Tame(RootAccept(t)) /\ Tame(AptAccept(t))
                       /\ Tame(ProxyAccept(t)) /\ Tame(GuardRule(t))
<1>1. \A m : Tame(Rule(m, "REJECT")) /\ Tame(Rule(m, "DROP"))
  BY DEF Rule, Tame
<1>2. \A m : m \intersect Tracked = {} => Tame(Rule(m, "ACCEPT"))
  BY DEF Rule, Tame
<1>3. \A m \in {{"ndp", "dns6"}, {"dns"}, {"guest"}, {"api"}, {"lo"}, {"lo6"}, {"root"}, {"apt"},
                {"proxy"}, {}} : m \intersect Tracked = {}
  BY DEF Tracked
<1>4. /\ Tame(NdpDns6) /\ Tame(Dns) /\ Tame(UdpDrop) /\ Tame(AgentToSquid)
      /\ Tame(GatewayReject) /\ Tame(AnthropicCidr) /\ Tame(RejectAll)
  BY <1>1, <1>2, <1>3 DEF NdpDns6, Dns, UdpDrop, AgentToSquid, GatewayReject,
     AnthropicCidr, RejectAll
<1>5. Tame(Established)
  BY DEF Tame, Established
<1>6. ASSUME NEW t \in Tables
      PROVE  /\ Tame(Lo(t)) /\ Tame(RootAccept(t)) /\ Tame(AptAccept(t))
             /\ Tame(ProxyAccept(t)) /\ Tame(GuardRule(t))
  BY <1>1, <1>2, <1>3 DEF Lo, RootAccept, AptAccept, ProxyAccept, GuardRule
<1> QED
  BY <1>4, <1>5, <1>6

LEMMA RulesetPlaces ==
  ASSUME NEW mode \in Modes, NEW i \in 1 .. 21 + Gate + Opens(mode)
  PROVE  \/ i = 1 /\ Ruleset(mode)[i] = DropPolicy("iptables")
         \/ i = 2 /\ Ruleset(mode)[i] = Flush("iptables")
         \/ i = 5 /\ Ruleset(mode)[i] = DropPolicy("ip6tables")
         \/ i = 6 /\ Ruleset(mode)[i] = Flush("ip6tables")
         \/ Opens(mode) = 1 /\ i = 13 + Gate /\ Ruleset(mode)[i] = Add("iptables", OpenAccept)
         \/ i >= 3 /\ i # 5 /\ \E rule \in RuleSet :
                        Tame(rule) /\ Ruleset(mode)[i] = Add("iptables", rule)
         \/ i >= 7 /\ \E rule \in RuleSet :
                        Tame(rule) /\ Ruleset(mode)[i] = Add("ip6tables", rule)
<1> DEFINE g == Gate  o == Opens(mode)
<1>a. g \in 0 .. 1 /\ o \in 0 .. 1
  BY Offsets
<1>b. g = Gate /\ o = Opens(mode)
  OBVIOUS
<1>c. i \in 1 .. 21 + g + o
  OBVIOUS
<1> USE <1>a
<1> HIDE DEF g, o
<1> DEFINE R == Ruleset(mode)
           AddsTame(t, j) == \E rule \in RuleSet : Tame(rule) /\ R[j] = Add(t, rule)
<1>1. /\ R[1] = DropPolicy("iptables") /\ R[2] = Flush("iptables")
      /\ R[5] = DropPolicy("ip6tables") /\ R[6] = Flush("ip6tables")
      /\ o = 1 => R[13 + g] = Add("iptables", OpenAccept)
  BY <1>b, RulesetTable
<1>2. "iptables" \in Tables /\ "ip6tables" \in Tables
  BY DEF Tables
<1>3. /\ AddsTame("iptables", 3) /\ AddsTame("iptables", 4)
      /\ AddsTame("iptables", 10) /\ AddsTame("iptables", 11) /\ AddsTame("iptables", 12)
      /\ g = 1 => AddsTame("iptables", 13)
  BY <1>2, <1>b, RulesetTable, RuleTypes, TameRules
<1>4. /\ AddsTame("iptables", 13 + g + o) /\ AddsTame("iptables", 14 + g + o)
      /\ AddsTame("iptables", 15 + g + o) /\ AddsTame("iptables", 16 + g + o)
      /\ AddsTame("iptables", 20 + g + o)
  BY <1>2, <1>b, RulesetTable, RuleTypes, TameRules
<1>5. /\ AddsTame("ip6tables", 7) /\ AddsTame("ip6tables", 8) /\ AddsTame("ip6tables", 9)
      /\ AddsTame("ip6tables", 17 + g + o) /\ AddsTame("ip6tables", 18 + g + o)
      /\ AddsTame("ip6tables", 19 + g + o) /\ AddsTame("ip6tables", 21 + g + o)
  BY <1>2, <1>b, RulesetTable, RuleTypes, TameRules
<1> HIDE DEF R, AddsTame
<1>6. \/ i \in 1 .. 12
      \/ g = 1 /\ i = 13
      \/ o = 1 /\ i = 13 + g
      \/ i = 13 + g + o \/ i = 14 + g + o \/ i = 15 + g + o \/ i = 16 + g + o
      \/ i = 17 + g + o \/ i = 18 + g + o \/ i = 19 + g + o \/ i = 20 + g + o
      \/ i = 21 + g + o
  <2>1. i \in Nat /\ 1 <= i /\ i <= 21 + g + o
    BY <1>b, <1>c
  <2>2. (g = 0 \/ g = 1) /\ (o = 0 \/ o = 1)
    OBVIOUS
  <2>3. CASE g = 0 /\ o = 0
    BY <2>1, <2>3
  <2>4. CASE g = 0 /\ o = 1
    BY <2>1, <2>4
  <2>5. CASE g = 1 /\ o = 0
    BY <2>1, <2>5
  <2>6. CASE g = 1 /\ o = 1
    BY <2>1, <2>6
  <2> QED
    BY <2>2, <2>3, <2>4, <2>5, <2>6
<1>7. i \in 1 .. 12 => \/ i = 1 \/ i = 2 \/ i = 3 \/ i = 4 \/ i = 5 \/ i = 6 \/ i = 7
                       \/ i = 8 \/ i = 9 \/ i = 10 \/ i = 11 \/ i = 12
  OBVIOUS
<1>8. \/ i = 1 /\ R[i] = DropPolicy("iptables")
      \/ i = 2 /\ R[i] = Flush("iptables")
      \/ i = 5 /\ R[i] = DropPolicy("ip6tables")
      \/ i = 6 /\ R[i] = Flush("ip6tables")
      \/ o = 1 /\ i = 13 + g /\ R[i] = Add("iptables", OpenAccept)
      \/ i >= 3 /\ i # 5 /\ AddsTame("iptables", i)
      \/ i >= 7 /\ AddsTame("ip6tables", i)
  BY <1>1, <1>3, <1>4, <1>5, <1>6, <1>7
<1> QED
  BY <1>b, <1>8 DEF R, AddsTame

(* What the command at a place can be, and where each command is.          *)
LEMMA ScriptPlaces ==
  ASSUME NEW kind \in {"boot", "switch"}, NEW mode \in Modes,
         NEW i \in 1 .. Len(Script(kind, mode)), NEW c, c = Script(kind, mode)[i]
  PROVE  \/ Locks(kind) = 1 /\ i = 1 /\ c = Cmd("lock")
         \/ i = Locks(kind) + 1 /\ c = Cmd("mode")
         \/ i = Locks(kind) + 2 /\ c = Cmd("squid")
         \/ i = Locks(kind) + 3 /\ c = DropPolicy("iptables")
         \/ i = Locks(kind) + 4 /\ c = Flush("iptables")
         \/ i = Locks(kind) + 7 /\ c = DropPolicy("ip6tables")
         \/ i = Locks(kind) + 8 /\ c = Flush("ip6tables")
         \/ Opens(mode) = 1 /\ i = Locks(kind) + 15 + Gate /\ c = Add("iptables", OpenAccept)
         \/ /\ i >= Locks(kind) + 5 /\ i # Locks(kind) + 7
            /\ i <= Locks(kind) + 23 + Gate + Opens(mode)
            /\ \E rule \in RuleSet : Tame(rule) /\ c = Add("iptables", rule)
         \/ /\ i >= Locks(kind) + 9 /\ i <= Locks(kind) + 23 + Gate + Opens(mode)
            /\ \E rule \in RuleSet : Tame(rule) /\ c = Add("ip6tables", rule)
         \/ i = Locks(kind) + 24 + Gate + Opens(mode) /\ c = Cmd("check")
         \/ i = Locks(kind) + 25 + Gate + Opens(mode) /\ c = Cmd("record")
         \/ Locks(kind) = 1 /\ i = 27 + Gate + Opens(mode) /\ c = Cmd("finish")
<1> DEFINE g == Gate  o == Opens(mode)  b == Locks(kind)
<1>a. g \in 0 .. 1 /\ o \in 0 .. 1 /\ b \in 0 .. 1
  BY Offsets
<1>b. g = Gate /\ o = Opens(mode) /\ b = Locks(kind)
  OBVIOUS
<1>c. i \in 1 .. Len(Script(kind, mode))
  OBVIOUS
<1> USE <1>a
<1> HIDE DEF g, o, b
<1> DEFINE S == Script(kind, mode)
<1>1. Len(S) = 25 + g + o + b + b
  BY <1>b, ScriptTable
<1>2. /\ b = 1 => S[1] = Cmd("lock")
      /\ S[b + 1] = Cmd("mode") /\ S[b + 2] = Cmd("squid")
      /\ S[24 + g + o + b] = Cmd("check") /\ S[25 + g + o + b] = Cmd("record")
      /\ b = 1 => S[27 + g + o] = Cmd("finish")
  BY <1>b, ScriptTable
<1>3. \A j \in 1 .. 21 + g + o : S[b + 2 + j] = Ruleset(mode)[j]
  BY <1>b, ScriptTable
<1> HIDE DEF S
<1>4. \/ b = 1 /\ i = 1
      \/ i = b + 1 \/ i = b + 2
      \/ i - b - 2 \in 1 .. 21 + g + o
      \/ i = 24 + g + o + b \/ i = 25 + g + o + b
      \/ b = 1 /\ i = 27 + g + o
  <2>1. i \in Nat /\ 1 <= i /\ i <= 25 + g + o + b + b
    BY <1>1, <1>c DEF S
  <2>2. g \in Nat /\ o \in Nat /\ (b = 0 \/ b = 1)
    OBVIOUS
  <2>3. CASE b = 0
    BY <2>1, <2>2, <2>3
  <2>4. CASE b = 1
    BY <2>1, <2>2, <2>4
  <2> QED
    BY <2>2, <2>3, <2>4
<1>5. CASE i - b - 2 \in 1 .. 21 + g + o
  <2> DEFINE j == i - b - 2
  <2>1. c = Ruleset(mode)[j]
    <3>1. b + 2 + j = i
      BY <1>1 DEF S
    <3> QED
      BY <1>3, <1>5, <3>1 DEF S
  <2>2. i = b + 2 + j /\ j \in 1 .. 21 + g + o
    BY <1>1, <1>5 DEF S
  <2> HIDE DEF j
  <2>3. \/ j = 1 /\ c = DropPolicy("iptables")
        \/ j = 2 /\ c = Flush("iptables")
        \/ j = 5 /\ c = DropPolicy("ip6tables")
        \/ j = 6 /\ c = Flush("ip6tables")
        \/ o = 1 /\ j = 13 + g /\ c = Add("iptables", OpenAccept)
        \/ j >= 3 /\ j # 5 /\ \E rule \in RuleSet : Tame(rule) /\ c = Add("iptables", rule)
        \/ j >= 7 /\ \E rule \in RuleSet : Tame(rule) /\ c = Add("ip6tables", rule)
    BY <2>1, <2>2, <1>b, RulesetPlaces
  <2>4. (j = 1 => i = b + 3) /\ (j = 2 => i = b + 4)
    BY <2>2
  <2>5. (j = 5 => i = b + 7) /\ (j = 6 => i = b + 8)
    BY <2>2
  <2>6. /\ j = 13 + g => i = b + 15 + g
        /\ j >= 3 => i >= b + 5
        /\ j # 5 => i # b + 7
        /\ j >= 7 => i >= b + 9
        /\ i <= b + 23 + g + o
    BY <2>2
  <2> DEFINE four == \E rule \in RuleSet : Tame(rule) /\ c = Add("iptables", rule)
             six == \E rule \in RuleSet : Tame(rule) /\ c = Add("ip6tables", rule)
  <2>7. \/ i = b + 3 /\ c = DropPolicy("iptables")
        \/ i = b + 4 /\ c = Flush("iptables")
        \/ i = b + 7 /\ c = DropPolicy("ip6tables")
        \/ i = b + 8 /\ c = Flush("ip6tables")
        \/ o = 1 /\ i = b + 15 + g /\ c = Add("iptables", OpenAccept)
        \/ i >= b + 5 /\ i # b + 7 /\ i <= b + 23 + g + o /\ four
        \/ i >= b + 9 /\ i <= b + 23 + g + o /\ six
    <3> HIDE DEF four, six
    <3>1. \/ j = 1 /\ c = DropPolicy("iptables")
          \/ j = 2 /\ c = Flush("iptables")
          \/ j = 5 /\ c = DropPolicy("ip6tables")
          \/ j = 6 /\ c = Flush("ip6tables")
          \/ o = 1 /\ j = 13 + g /\ c = Add("iptables", OpenAccept)
          \/ j >= 3 /\ j # 5 /\ four
          \/ j >= 7 /\ six
      BY <2>3 DEF four, six
    <3> QED
      BY <3>1, <2>4, <2>5, <2>6
  <2> QED
    BY <2>7, <1>b
<1>6. CASE ~(i - b - 2 \in 1 .. 21 + g + o)
  <2>1. \/ b = 1 /\ i = 1 /\ c = Cmd("lock")
        \/ i = b + 1 /\ c = Cmd("mode")
        \/ i = b + 2 /\ c = Cmd("squid")
        \/ i = b + 24 + g + o /\ c = Cmd("check")
        \/ i = b + 25 + g + o /\ c = Cmd("record")
        \/ b = 1 /\ i = 27 + g + o /\ c = Cmd("finish")
    BY <1>2, <1>4, <1>6 DEF S
  <2> QED
    BY <1>b, <2>1
<1> QED
  BY <1>5, <1>6

-----------------------------------------------------------------------------
(* The inductive invariant                                                 *)

Chains == [Tables -> [policy : {"ACCEPT", "DROP"}, rules : Seq(RuleSet)]]

\* Run r has executed the k-th command after taking the lock, or more.
Past(r, k) == runs[r].pc > Locks(runs[r].kind) + k

Off == boot = "off" => chain = EmptyChain /\ ~agent /\ \A r \in Run : Idle(r)

(* A table's policy drops before anything in it is flushed, and the guard's *)
(* rule is all there is in a table until then.                              *)
PolicyFirst ==
  /\ \A r \in Run : /\ Past(r, 3) => chain["iptables"].policy = "DROP"
                    /\ Past(r, 7) => chain["ip6tables"].policy = "DROP"
  /\ boot = "done" => \A t \in Tables : chain[t].policy = "DROP"
  /\ \A t \in Tables : chain[t].policy = "ACCEPT" /\ guard = "active"
                         => chain[t].rules = <<GuardRule(t)>>

\* An agent that did not slip into an unguarded boot, and its connections.
Admitted ==
  /\ agent /\ ~ungated => guard = "active" \/ \A t \in Tables : chain[t].policy = "DROP"
  /\ ~agent => flows = {}

(* Until a looser mode is asked for nothing is loose: once a run is past    *)
(* its restart of Squid, or the policy drops, neither is Squid.             *)
Strict ==
  ~loosened =>
    /\ modeFile = "allowlist" /\ verify \in {"none", "allowlist"}
    /\ \A r \in Run : runs[r].mode = "allowlist"
    /\ \A i \in DOMAIN chain["iptables"].rules : Tame(chain["iptables"].rules[i])
    /\ (\E r \in Run : Past(r, 2)) \/ chain["iptables"].policy = "DROP"
         => squid \in {"down", "allowlist"}

Filtered ==
  /\ NeverUnfiltered
  /\ \A i \in DOMAIN chain["ip6tables"].rules : Tame(chain["ip6tables"].rules[i])
  /\ ~ungated => "gateway6" \notin flows

FirewallInv ==
  /\ TypeOK /\ chain \in Chains /\ Off /\ PolicyFirst /\ Admitted /\ Strict /\ Filtered

-----------------------------------------------------------------------------
(* Where a run is when it executes a command, and where it is after it     *)

LEMMA Runs ==
  ASSUME TypeOK, NEW r \in Run
  PROVE  /\ runs[r] \in RunRecord /\ runs[r].kind \in {"boot", "switch"}
         /\ runs[r].mode \in Modes /\ runs[r].pc \in Nat
         /\ runs[r].pc <= Len(ScriptOf(r)) /\ Len(ScriptOf(r)) \in Nat
         /\ Locks(runs[r].kind) \in 0 .. 1 /\ Gate \in 0 .. 1
         /\ Opens(runs[r].mode) \in 0 .. 1
         /\ Len(ScriptOf(r)) = 25 + Gate + Opens(runs[r].mode)
                               + Locks(runs[r].kind) + Locks(runs[r].kind)
<1>1. /\ runs[r] \in RunRecord /\ runs[r].kind \in {"boot", "switch"}
      /\ runs[r].mode \in Modes /\ runs[r].pc \in Nat
      /\ runs[r].pc <= Len(ScriptOf(r))
  BY DEF TypeOK, RunRecord
<1>2. Len(ScriptOf(r)) = 25 + Gate + Opens(runs[r].mode)
                         + Locks(runs[r].kind) + Locks(runs[r].kind)
  BY <1>1, ScriptTable DEF ScriptOf
<1> QED
  BY <1>1, <1>2, Offsets

LEMMA NoRunType == NoRun \in RunRecord /\ NoRun.pc = 0 /\ NoRun.mode = "allowlist"
  BY DEF NoRun, RunRecord, Modes

(* A run that has executed a command ends or is at the next one.           *)
LEMMA Advance ==
  ASSUME TypeOK, NEW r \in Run, ~Idle(r), Done(r)
  PROVE  /\ runs' \in [Run -> RunRecord]
         /\ \A q \in Run : runs'[q].pc <= Len(ScriptOf(q))'
         /\ \A q \in Run \ {r} : runs'[q] = runs[q]
         /\ \/ runs'[r] = NoRun
            \/ runs'[r] = [runs[r] EXCEPT !.pc = @ + 1]
         /\ runs'[r].mode \in {runs[r].mode, "allowlist"}
<1>1. /\ runs[r] \in RunRecord /\ runs[r].pc \in Nat /\ Len(ScriptOf(r)) \in Nat
      /\ runs[r].pc <= Len(ScriptOf(r)) /\ runs \in [Run -> RunRecord]
  BY Runs DEF TypeOK
<1> DEFINE n == [runs[r] EXCEPT !.pc = @ + 1]
<1>2. /\ n \in RunRecord /\ n.pc = runs[r].pc + 1
      /\ n.kind = runs[r].kind /\ n.mode = runs[r].mode
  BY <1>1 DEF RunRecord
<1>3. \/ runs' = [runs EXCEPT ![r] = NoRun]
      \/ runs[r].pc # Len(ScriptOf(r)) /\ runs' = [runs EXCEPT ![r] = n]
  BY DEF Done
<1>4. ASSUME NEW m \in RunRecord, runs' = [runs EXCEPT ![r] = m],
             m.pc <= Len(Script(m.kind, m.mode))
      PROVE  /\ runs' \in [Run -> RunRecord]
             /\ \A q \in Run : runs'[q].pc <= Len(ScriptOf(q))'
             /\ \A q \in Run \ {r} : runs'[q] = runs[q]
             /\ runs'[r] = m
  <2>1. /\ runs' \in [Run -> RunRecord] /\ runs'[r] = m
        /\ \A q \in Run \ {r} : runs'[q] = runs[q]
    BY <1>1, <1>4
  <2>2. \A q \in Run : runs'[q].pc <= Len(Script(runs'[q].kind, runs'[q].mode))
    BY <1>4, <2>1 DEF TypeOK, ScriptOf
  <2> QED
    BY <2>1, <2>2 DEF ScriptOf
<1> HIDE DEF n
<1>5. CASE runs' = [runs EXCEPT ![r] = NoRun]
  <2>1. NoRun.pc <= Len(Script(NoRun.kind, NoRun.mode))
    <3>1. NoRun.kind \in {"boot", "switch"} /\ NoRun.mode \in Modes /\ NoRun.pc = 0
      BY DEF NoRun, Modes
    <3>2. Len(Script(NoRun.kind, NoRun.mode)) \in Nat
      BY <3>1, ScriptTable
    <3> QED
      BY <3>1, <3>2
  <2> QED
    BY <1>4, <1>5, <2>1, NoRunType
<1>6. CASE runs[r].pc # Len(ScriptOf(r)) /\ runs' = [runs EXCEPT ![r] = n]
  <2>1. n.pc <= Len(Script(n.kind, n.mode))
    <3>1. Len(Script(n.kind, n.mode)) = Len(ScriptOf(r))
      BY <1>2 DEF ScriptOf
    <3> QED
      BY <1>1, <1>2, <1>6, <3>1
  <2>2. /\ runs' \in [Run -> RunRecord]
        /\ \A q \in Run : runs'[q].pc <= Len(ScriptOf(q))'
        /\ \A q \in Run \ {r} : runs'[q] = runs[q]
        /\ runs'[r] = n
    BY <1>2, <1>4, <1>6, <2>1
  <2> QED
    BY <1>2, <2>2 DEF n
<1> QED
  BY <1>3, <1>5, <1>6

LEMMA Doings ==
  ASSUME TypeOK, NEW r \in Run, ~Idle(r), NEW b, NEW g, NEW o, NEW pc,
         b = Locks(runs[r].kind),
         g = Gate, o = Opens(runs[r].mode), pc = runs[r].pc
  PROVE  /\ Doing(r, "lock") => pc = b
         /\ Doing(r, "mode") => pc = b + 1
         /\ Doing(r, "squid") => pc = b + 2
         /\ Doing(r, "policy") =>
              \/ pc = b + 3 /\ Command(r) = DropPolicy("iptables")
              \/ pc = b + 7 /\ Command(r) = DropPolicy("ip6tables")
         /\ Doing(r, "flush") =>
              \/ pc = b + 4 /\ Command(r) = Flush("iptables")
              \/ pc = b + 8 /\ Command(r) = Flush("ip6tables")
         /\ Doing(r, "append") =>
              \/ pc = b + 15 + g /\ o = 1 /\ Command(r) = Add("iptables", OpenAccept)
              \/ pc >= b + 5 /\ pc # b + 7 /\ \E rule \in RuleSet :
                                  Tame(rule) /\ Command(r) = Add("iptables", rule)
              \/ pc >= b + 9 /\ \E rule \in RuleSet :
                                  Tame(rule) /\ Command(r) = Add("ip6tables", rule)
         /\ Doing(r, "check") => pc = b + 24 + g + o
         /\ Doing(r, "record") => pc = b + 25 + g + o
         /\ Doing(r, "finish") => b = 1 /\ pc = 27 + g + o
<1> DEFINE c == Command(r)
<1>1. /\ runs[r].kind \in {"boot", "switch"} /\ runs[r].mode \in Modes
      /\ pc \in 1 .. Len(Script(runs[r].kind, runs[r].mode))
      /\ c = Script(runs[r].kind, runs[r].mode)[pc]
  BY Runs DEF Idle, Command, ScriptOf
<1>2. \/ b = 1 /\ pc = 1 /\ c = Cmd("lock")
      \/ pc = b + 1 /\ c = Cmd("mode")
      \/ pc = b + 2 /\ c = Cmd("squid")
      \/ pc = b + 3 /\ c = DropPolicy("iptables")
      \/ pc = b + 4 /\ c = Flush("iptables")
      \/ pc = b + 7 /\ c = DropPolicy("ip6tables")
      \/ pc = b + 8 /\ c = Flush("ip6tables")
      \/ o = 1 /\ pc = b + 15 + g /\ c = Add("iptables", OpenAccept)
      \/ pc >= b + 5 /\ pc # b + 7 /\ \E rule \in RuleSet : Tame(rule) /\ c = Add("iptables", rule)
      \/ pc >= b + 9 /\ \E rule \in RuleSet : Tame(rule) /\ c = Add("ip6tables", rule)
      \/ pc = b + 24 + g + o /\ c = Cmd("check")
      \/ pc = b + 25 + g + o /\ c = Cmd("record")
      \/ b = 1 /\ pc = 27 + g + o /\ c = Cmd("finish")
  <2> DEFINE kind == runs[r].kind
             mode == runs[r].mode
  <2>1. /\ kind \in {"boot", "switch"} /\ mode \in Modes
        /\ pc \in 1 .. Len(Script(kind, mode)) /\ c = Script(kind, mode)[pc]
    BY <1>1
  <2>2. b = Locks(kind) /\ o = Opens(mode) /\ g = Gate
    OBVIOUS
  <2>3. pc = runs[r].pc
    OBVIOUS
  <2> HIDE DEF kind, mode, c
  <2>4. \/ Locks(kind) = 1 /\ pc = 1 /\ c = Cmd("lock")
        \/ pc = Locks(kind) + 1 /\ c = Cmd("mode")
        \/ pc = Locks(kind) + 2 /\ c = Cmd("squid")
        \/ pc = Locks(kind) + 3 /\ c = DropPolicy("iptables")
        \/ pc = Locks(kind) + 4 /\ c = Flush("iptables")
        \/ pc = Locks(kind) + 7 /\ c = DropPolicy("ip6tables")
        \/ pc = Locks(kind) + 8 /\ c = Flush("ip6tables")
        \/ /\ Opens(mode) = 1 /\ pc = Locks(kind) + 15 + Gate
           /\ c = Add("iptables", OpenAccept)
        \/ /\ pc >= Locks(kind) + 5 /\ pc # Locks(kind) + 7
           /\ pc <= Locks(kind) + 23 + Gate + Opens(mode)
           /\ \E rule \in RuleSet : Tame(rule) /\ c = Add("iptables", rule)
        \/ /\ pc >= Locks(kind) + 9 /\ pc <= Locks(kind) + 23 + Gate + Opens(mode)
           /\ \E rule \in RuleSet : Tame(rule) /\ c = Add("ip6tables", rule)
        \/ pc = Locks(kind) + 24 + Gate + Opens(mode) /\ c = Cmd("check")
        \/ pc = Locks(kind) + 25 + Gate + Opens(mode) /\ c = Cmd("record")
        \/ Locks(kind) = 1 /\ pc = 27 + Gate + Opens(mode) /\ c = Cmd("finish")
    BY <2>1, ScriptPlaces
  <2> QED
    BY <2>2, <2>4
<1>3. /\ \A op : Cmd(op).op = op
      /\ \A t : DropPolicy(t).op = "policy" /\ Flush(t).op = "flush"
      /\ \A t, rule : Add(t, rule).op = "append"
  BY DEF Cmd, DropPolicy, Flush, Add
<1>4. \A op : Doing(r, op) <=> c.op = op
  BY DEF Doing
<1> HIDE DEF c
<1> DEFINE tame4 == \E rule \in RuleSet : Tame(rule) /\ c = Add("iptables", rule)
           tame6 == \E rule \in RuleSet : Tame(rule) /\ c = Add("ip6tables", rule)
<1>5. \/ b = 1 /\ pc = 1 /\ c.op = "lock"
      \/ pc = b + 1 /\ c.op = "mode"
      \/ pc = b + 2 /\ c.op = "squid"
      \/ pc = b + 3 /\ c.op = "policy" /\ c = DropPolicy("iptables")
      \/ pc = b + 4 /\ c.op = "flush" /\ c = Flush("iptables")
      \/ pc = b + 7 /\ c.op = "policy" /\ c = DropPolicy("ip6tables")
      \/ pc = b + 8 /\ c.op = "flush" /\ c = Flush("ip6tables")
      \/ o = 1 /\ pc = b + 15 + g /\ c.op = "append" /\ c = Add("iptables", OpenAccept)
      \/ pc >= b + 5 /\ pc # b + 7 /\ c.op = "append" /\ tame4
      \/ pc >= b + 9 /\ c.op = "append" /\ tame6
      \/ pc = b + 24 + g + o /\ c.op = "check"
      \/ pc = b + 25 + g + o /\ c.op = "record"
      \/ b = 1 /\ pc = 27 + g + o /\ c.op = "finish"
  BY <1>2, <1>3
<1>6. /\ c.op = "lock" => pc = b
      /\ c.op = "mode" => pc = b + 1
      /\ c.op = "squid" => pc = b + 2
      /\ c.op = "policy" => \/ pc = b + 3 /\ c = DropPolicy("iptables")
                            \/ pc = b + 7 /\ c = DropPolicy("ip6tables")
      /\ c.op = "flush" => \/ pc = b + 4 /\ c = Flush("iptables")
                           \/ pc = b + 8 /\ c = Flush("ip6tables")
      /\ c.op = "append" => \/ pc = b + 15 + g /\ o = 1 /\ c = Add("iptables", OpenAccept)
                            \/ pc >= b + 5 /\ pc # b + 7 /\ tame4
                            \/ pc >= b + 9 /\ tame6
      /\ c.op = "check" => pc = b + 24 + g + o
      /\ c.op = "record" => pc = b + 25 + g + o
      /\ c.op = "finish" => b = 1 /\ pc = 27 + g + o
  <2> HIDE DEF tame4, tame6
  <2> QED
    BY <1>5
<1> QED
  BY <1>4, <1>6 DEF c

(* What a command of iptables does to which table.                         *)
Drops(r, t) ==
  /\ runs[r].pc = Locks(runs[r].kind) + IF t = "iptables" THEN 3 ELSE 7
  /\ chain'[t].policy = "DROP" /\ chain'[t].rules = chain[t].rules
Flushes(r, t) ==
  /\ runs[r].pc = Locks(runs[r].kind) + IF t = "iptables" THEN 4 ELSE 8
  /\ chain'[t].policy = chain[t].policy /\ chain'[t].rules = <<>>
Appends(r, t, rule) ==
  /\ runs[r].pc >= Locks(runs[r].kind) + IF t = "iptables" THEN 5 ELSE 9
  /\ t = "iptables" => runs[r].pc # Locks(runs[r].kind) + 7
  /\ \/ Tame(rule)
     \/ /\ t = "iptables" /\ rule = OpenAccept /\ Opens(runs[r].mode) = 1
        /\ runs[r].pc = Locks(runs[r].kind) + 15 + Gate
  /\ chain'[t].policy = chain[t].policy
  /\ chain'[t].rules = Append(chain[t].rules, rule)
  /\ Doing(r, "append") /\ Command(r) = Add(t, rule)

LEMMA IptablesDoes ==
  ASSUME TypeOK, chain \in Chains, NEW r \in Run, Iptables(r)
  PROVE  /\ chain' \in Chains
         /\ \E t \in Tables :
              /\ \A u \in Tables \ {t} : chain'[u] = chain[u]
              /\ Drops(r, t) \/ Flushes(r, t) \/ \E rule \in RuleSet : Appends(r, t, rule)
<1>1. /\ Locks(runs[r].kind) \in 0 .. 1 /\ Gate \in 0 .. 1 /\ runs[r].pc \in Nat
      /\ "iptables" \in Tables /\ "ip6tables" \in Tables /\ "iptables" # "ip6tables"
  BY Runs DEF Tables
<1>a. ~Idle(r)
  BY DEF Iptables, Doing
<1>2. \A t \in Tables : /\ chain[t] \in [policy : {"ACCEPT", "DROP"}, rules : Seq(RuleSet)]
                        /\ chain[t].rules \in Seq(RuleSet)
  BY DEF Chains
<1>3. ASSUME NEW t \in Tables, NEW m \in [policy : {"ACCEPT", "DROP"}, rules : Seq(RuleSet)],
             chain' = [chain EXCEPT ![t] = m]
      PROVE  /\ chain' \in Chains /\ chain'[t] = m
             /\ \A u \in Tables \ {t} : chain'[u] = chain[u]
  BY <1>3 DEF Chains
<1>4. CASE Doing(r, "policy") /\ chain' = [chain EXCEPT ![Command(r).table].policy = "DROP"]
  <2>1. PICK t \in Tables : /\ Command(r) = DropPolicy(t)
                            /\ runs[r].pc = Locks(runs[r].kind) + IF t = "iptables" THEN 3 ELSE 7
    BY <1>1, <1>a, <1>4, Doings
  <2> DEFINE m == [chain[t] EXCEPT !.policy = "DROP"]
  <2>2. /\ m \in [policy : {"ACCEPT", "DROP"}, rules : Seq(RuleSet)]
        /\ m.policy = "DROP" /\ m.rules = chain[t].rules
    BY <1>2
  <2>3. chain' = [chain EXCEPT ![t] = m]
    BY <1>4, <2>1 DEF DropPolicy
  <2> HIDE DEF m
  <2> QED
    BY <1>3, <2>1, <2>2, <2>3 DEF Drops
<1>5. CASE Doing(r, "flush") /\ chain' = [chain EXCEPT ![Command(r).table].rules = <<>>]
  <2>1. PICK t \in Tables : /\ Command(r) = Flush(t)
                            /\ runs[r].pc = Locks(runs[r].kind) + IF t = "iptables" THEN 4 ELSE 8
    BY <1>1, <1>a, <1>5, Doings
  <2> DEFINE m == [chain[t] EXCEPT !.rules = <<>>]
  <2>2. /\ m \in [policy : {"ACCEPT", "DROP"}, rules : Seq(RuleSet)]
        /\ m.policy = chain[t].policy /\ m.rules = <<>>
    <3>1. <<>> \in Seq(RuleSet)
      OBVIOUS
    <3> HIDE DEF RuleSet
    <3> QED
      BY <1>2, <3>1
  <2>3. chain' = [chain EXCEPT ![t] = m]
    BY <1>5, <2>1 DEF Flush
  <2> HIDE DEF m
  <2> QED
    BY <1>3, <2>1, <2>2, <2>3 DEF Flushes
<1>6. CASE Doing(r, "append") /\ chain' = [chain EXCEPT ![Command(r).table].rules =
                                             Append(@, Command(r).rule)]
  <2>1. PICK t \in Tables, rule \in RuleSet :
          /\ Command(r) = Add(t, rule)
          /\ runs[r].pc >= Locks(runs[r].kind) + IF t = "iptables" THEN 5 ELSE 9
          /\ t = "iptables" => runs[r].pc # Locks(runs[r].kind) + 7
          /\ \/ Tame(rule)
             \/ /\ t = "iptables" /\ rule = OpenAccept /\ Opens(runs[r].mode) = 1
                /\ runs[r].pc = Locks(runs[r].kind) + 15 + Gate
    <3>1. CASE /\ runs[r].pc = Locks(runs[r].kind) + 15 + Gate /\ Opens(runs[r].mode) = 1
               /\ Command(r) = Add("iptables", OpenAccept)
      <4>1. /\ runs[r].pc >= Locks(runs[r].kind) + 5
            /\ runs[r].pc # Locks(runs[r].kind) + 7
        BY <1>1, <3>1
      <4> QED
        BY <1>1, <3>1, <4>1, RuleTypes
    <3>2. CASE /\ runs[r].pc >= Locks(runs[r].kind) + 5
               /\ runs[r].pc # Locks(runs[r].kind) + 7
               /\ \E rule \in RuleSet : Tame(rule) /\ Command(r) = Add("iptables", rule)
      BY <1>1, <3>2
    <3>3. CASE /\ runs[r].pc >= Locks(runs[r].kind) + 9
               /\ \E rule \in RuleSet : Tame(rule) /\ Command(r) = Add("ip6tables", rule)
      BY <1>1, <3>3
    <3> QED
      BY <1>a, <1>6, <3>1, <3>2, <3>3, Doings
  <2> DEFINE m == [chain[t] EXCEPT !.rules = Append(chain[t].rules, rule)]
  <2>2. /\ m \in [policy : {"ACCEPT", "DROP"}, rules : Seq(RuleSet)]
        /\ m.policy = chain[t].policy /\ m.rules = Append(chain[t].rules, rule)
    <3>1. Append(chain[t].rules, rule) \in Seq(RuleSet)
      BY <1>2
    <3> HIDE DEF RuleSet
    <3> QED
      BY <1>2, <3>1
  <2>3. chain' = [chain EXCEPT ![t] = m]
    BY <1>6, <2>1 DEF Add
  <2> HIDE DEF m
  <2>4. Appends(r, t, rule)
    BY <1>3, <1>6, <2>1, <2>2, <2>3 DEF Appends
  <2> QED
    BY <1>3, <2>2, <2>3, <2>4
<1> QED
  BY <1>4, <1>5, <1>6 DEF Iptables

LEMMA Moves ==
  ASSUME TypeOK, NEW r \in Run, ~Idle(r), Done(r)
  PROVE  /\ runs' \in [Run -> RunRecord]
         /\ \A q \in Run : runs'[q].pc <= Len(ScriptOf(q))'
         /\ \A q \in Run : runs'[q].mode \in {runs[q].mode, "allowlist"}
         /\ \A q \in Run, k \in 0 .. 20 :
              Past(q, k)' => \/ Past(q, k)
                             \/ q = r /\ runs[r].pc = Locks(runs[r].kind) + k
<1>1. /\ runs' \in [Run -> RunRecord]
      /\ \A q \in Run : runs'[q].pc <= Len(ScriptOf(q))'
      /\ \A q \in Run \ {r} : runs'[q] = runs[q]
      /\ runs'[r] = NoRun \/ runs'[r] = [runs[r] EXCEPT !.pc = @ + 1]
      /\ runs'[r].mode \in {runs[r].mode, "allowlist"}
  BY Advance
<1>2. ASSUME NEW k \in 0 .. 20, Past(r, k)', ~Past(r, k)
      PROVE  runs[r].pc = Locks(runs[r].kind) + k
  <2>1. /\ runs[r] \in RunRecord /\ runs[r].pc \in Nat /\ Locks(runs[r].kind) \in 0 .. 1
        /\ Locks(NoRun.kind) \in 0 .. 1
    BY Runs, Offsets
  <2>2. CASE runs'[r] = NoRun
    BY <1>2, <2>1, <2>2, NoRunType DEF Past
  <2>3. CASE runs'[r] = [runs[r] EXCEPT !.pc = @ + 1]
    <3>1. runs'[r].pc = runs[r].pc + 1 /\ runs'[r].kind = runs[r].kind
      BY <2>1, <2>3 DEF RunRecord
    <3>2. runs[r].pc + 1 > Locks(runs[r].kind) + k /\ ~(runs[r].pc > Locks(runs[r].kind) + k)
      BY <1>2, <3>1 DEF Past
    <3> QED
      BY <2>1, <3>2
  <2> QED
    BY <1>1, <2>2, <2>3
<1>3. \A q \in Run \ {r}, k \in 0 .. 20 : Past(q, k)' <=> Past(q, k)
  BY <1>1 DEF Past
<1>4. \A q \in Run : runs'[q].mode \in {runs[q].mode, "allowlist"}
  BY <1>1
<1> QED
  BY <1>1, <1>2, <1>3, <1>4

-----------------------------------------------------------------------------
(* The invariant, action by action                                         *)

LEMMA InitInv == Init => FirewallInv
<1> SUFFICES ASSUME Init PROVE FirewallInv
  OBVIOUS
<1>1. /\ boot = "off" /\ guard = "none" /\ chain = EmptyChain /\ flows = {}
      /\ agent = FALSE /\ ungated = FALSE /\ squidConf \in Modes /\ squid = "down"
      /\ modeFile = "allowlist" /\ verify = "none" /\ runs = [r \in Run |-> NoRun]
      /\ loosened = FALSE /\ broken = FALSE
      /\ boots = 0 /\ switches = 0 /\ faults = 0
  BY DEF Init
<1>2. \A r \in Run : runs[r] = NoRun
  BY <1>1
<1>3. chain \in Chains /\ \A t \in Tables : chain[t].policy = "ACCEPT" /\ chain[t].rules = <<>>
  <2>1. <<>> \in Seq(RuleSet)
    OBVIOUS
  <2> QED
    BY <1>1, <2>1 DEF EmptyChain, Chains
<1>4. \A r \in Run, k \in 0 .. 20 : ~Past(r, k)
  BY <1>2, NoRunType, Offsets DEF Past
<1>5. TypeOK
  <2>1. runs \in [Run -> RunRecord]
    BY <1>1, NoRunType
  <2>2. \A r \in Run : runs[r].pc <= Len(ScriptOf(r))
    <3>1. NoRun.kind \in {"boot", "switch"} /\ NoRun.mode \in Modes /\ NoRun.pc = 0
      BY DEF NoRun, Modes
    <3>2. Len(Script(NoRun.kind, NoRun.mode)) = 25 + Gate + Opens(NoRun.mode)
                             + Locks(NoRun.kind) + Locks(NoRun.kind)
      BY <3>1, ScriptTable
    <3>3. NoRun.pc <= Len(Script(NoRun.kind, NoRun.mode))
      BY <3>1, <3>2, Offsets
    <3> QED
      BY <1>2, <3>3 DEF ScriptOf
  <2>3. 0 \in 0 .. MaxBoots /\ 0 \in 0 .. MaxSwitches /\ 0 \in 0 .. MaxFaults
    BY BoundsAssumption
  <2>4. \A t \in Tables : chain[t].policy \in {"ACCEPT", "DROP"}
    BY <1>3
  <2> QED
    BY <1>1, <2>1, <2>2, <2>3, <2>4 DEF TypeOK, Modes, Tracked
<1>6. Off
  BY <1>1, <1>2, NoRunType DEF Off, Idle
<1>7. PolicyFirst
  BY <1>1, <1>4 DEF PolicyFirst
<1>8. Admitted
  BY <1>1 DEF Admitted
<1>9. Strict
  <2>1. "iptables" \in Tables
    BY DEF Tables
  <2> QED
    BY <1>1, <1>2, <1>3, <2>1, NoRunType DEF Strict
<1>10. Filtered
  <2>1. "ip6tables" \in Tables
    BY DEF Tables
  <2> QED
    BY <1>1, <1>3, <2>1 DEF Filtered, NeverUnfiltered
<1> QED
  BY <1>3, <1>5, <1>6, <1>7, <1>8, <1>9, <1>10 DEF FirewallInv

(* A command that touches neither the tables nor Squid.                    *)
LEMMA Onwards ==
  ASSUME FirewallInv, NEW r \in Run, ~Idle(r), Done(r),
         runs[r].pc \notin {Locks(runs[r].kind) + 2, Locks(runs[r].kind) + 3,
                            Locks(runs[r].kind) + 7},
         UNCHANGED <<guard, chain, flows, inside, squidConf, squid, modeFile, loosened,
                     bounds>>,
         boot' = boot \/ (boot' = "done" /\ Past(r, 7)),
         verify' \in {verify, runs[r].mode}, broken' \in BOOLEAN
  PROVE  FirewallInv'
<1>1. /\ runs' \in [Run -> RunRecord]
      /\ \A q \in Run : runs'[q].pc <= Len(ScriptOf(q))'
      /\ \A q \in Run : runs'[q].mode \in {runs[q].mode, "allowlist"}
      /\ \A q \in Run, k \in 0 .. 20 :
           Past(q, k)' => \/ Past(q, k)
                          \/ q = r /\ runs[r].pc = Locks(runs[r].kind) + k
  BY Moves DEF FirewallInv
<1>2. \A q \in Run, k \in {2, 3, 7} : Past(q, k)' => Past(q, k)
  BY <1>1
<1>3. /\ TypeOK /\ chain \in Chains /\ Off /\ PolicyFirst /\ Admitted /\ Strict /\ Filtered
  BY DEF FirewallInv
<1>4. /\ chain' = chain /\ guard' = guard /\ flows' = flows /\ agent' = agent
      /\ ungated' = ungated /\ squidConf' = squidConf /\ squid' = squid
      /\ modeFile' = modeFile /\ loosened' = loosened
      /\ boots' = boots /\ switches' = switches /\ faults' = faults
  BY DEF inside, bounds
<1>5. boot # "off" /\ boot' # "off"
  BY <1>3 DEF Off
<1>6. runs[r].mode \in Modes
  BY <1>3, Runs
<1>7. TypeOK'
  BY <1>1, <1>3, <1>4, <1>6 DEF TypeOK
<1>8. PolicyFirst'
  <2>1. boot' = "done" => \A t \in Tables : chain[t].policy = "DROP"
    <3>1. CASE boot' = boot
      BY <1>3, <3>1 DEF PolicyFirst
    <3>2. CASE Past(r, 7)
      <4>1. Past(r, 3)
        BY <1>3, <3>2, Runs DEF Past
      <4> QED
        BY <1>3, <3>2, <4>1 DEF PolicyFirst, Tables
    <3> QED
      BY <3>1, <3>2
  <2> QED
    BY <1>2, <1>3, <1>4, <2>1 DEF PolicyFirst
<1>9. Admitted' /\ Off' /\ Filtered'
  BY <1>3, <1>4, <1>5 DEF Admitted, Off, Filtered, NeverUnfiltered
<1>10. Strict'
  <2> SUFFICES ASSUME ~loosened
               PROVE  /\ modeFile' = "allowlist" /\ verify' \in {"none", "allowlist"}
                      /\ \A q \in Run : runs'[q].mode = "allowlist"
                      /\ \A i \in DOMAIN chain'["iptables"].rules :
                           Tame(chain'["iptables"].rules[i])
                      /\ (\E q \in Run : Past(q, 2)') \/ chain'["iptables"].policy = "DROP"
                           => squid' \in {"down", "allowlist"}
    BY <1>4 DEF Strict
  <2> QED
    BY <1>1, <1>2, <1>3, <1>4 DEF Strict
<1> QED
  BY <1>3, <1>4, <1>7, <1>8, <1>9, <1>10 DEF FirewallInv

LEMMA QuietSteps ==
  ASSUME FirewallInv, NEW r \in Run,
         LockSettings(r) \/ CheckRules(r) \/ RecordVerified(r) \/ FinishBoot(r)
  PROVE  FirewallInv'
<1> DEFINE b == Locks(runs[r].kind)
<1>1. /\ TypeOK /\ b \in 0 .. 1 /\ Gate \in 0 .. 1 /\ Opens(runs[r].mode) \in 0 .. 1
      /\ runs[r].pc \in Nat /\ runs[r].mode \in Modes
  BY Runs DEF FirewallInv
<1>a. ~Idle(r)
  BY DEF LockSettings, CheckRules, RecordVerified, FinishBoot, Doing
<1>2. /\ Doing(r, "lock") => runs[r].pc = b
      /\ Doing(r, "check") => runs[r].pc = b + 24 + Gate + Opens(runs[r].mode)
      /\ Doing(r, "record") => runs[r].pc = b + 25 + Gate + Opens(runs[r].mode)
      /\ Doing(r, "finish") => b = 1 /\ runs[r].pc = 27 + Gate + Opens(runs[r].mode)
  BY <1>1, <1>a, Doings
<1>3. broken \in BOOLEAN
  BY <1>1 DEF TypeOK
<1> HIDE DEF b
<1>4. CASE LockSettings(r)
  <2>1. runs[r].pc \notin {b + 2, b + 3, b + 7}
    BY <1>1, <1>2, <1>4 DEF LockSettings
  <2> QED
    BY <1>1, <1>3, <1>4, <2>1, Onwards DEF LockSettings, Doing, guest, b
<1>5. CASE CheckRules(r)
  <2>1. runs[r].pc \notin {b + 2, b + 3, b + 7}
    BY <1>1, <1>2, <1>5 DEF CheckRules
  <2> QED
    BY <1>1, <1>3, <1>5, <2>1, Onwards DEF CheckRules, Doing, guest, b
<1>6. CASE RecordVerified(r)
  <2>1. runs[r].pc \notin {b + 2, b + 3, b + 7}
    BY <1>1, <1>2, <1>6 DEF RecordVerified
  <2> QED
    BY <1>1, <1>6, <2>1, Onwards DEF RecordVerified, Doing, b
<1>7. CASE FinishBoot(r)
  <2>1. runs[r].pc \notin {b + 2, b + 3, b + 7} /\ runs[r].pc > b + 7
    BY <1>1, <1>2, <1>7 DEF FinishBoot
  <2>2. Past(r, 7)
    BY <2>1 DEF Past, b
  <2> QED
    BY <1>1, <1>3, <1>7, <2>1, <2>2, Onwards DEF FinishBoot, Doing, guest, b
<1> QED
  BY <1>4, <1>5, <1>6, <1>7

LEMMA Replaced ==
  ASSUME TypeOK, NEW r \in Run, NEW m \in RunRecord, m.pc \in 0 .. 1,
         runs' = [runs EXCEPT ![r] = m]
  PROVE  /\ runs' \in [Run -> RunRecord]
         /\ \A q \in Run : runs'[q].pc <= Len(ScriptOf(q))'
         /\ \A q \in Run : runs'[q].mode \in {runs[q].mode, m.mode}
         /\ \A q \in Run, k \in 1 .. 20 : Past(q, k)' => Past(q, k)
<1>1. /\ runs' \in [Run -> RunRecord] /\ runs'[r] = m
      /\ \A q \in Run \ {r} : runs'[q] = runs[q]
  BY DEF TypeOK
<1>2. m.pc <= Len(Script(m.kind, m.mode))
  <2>1. m.kind \in {"boot", "switch"} /\ m.mode \in Modes
    BY DEF RunRecord
  <2>2. Len(Script(m.kind, m.mode)) = 25 + Gate + Opens(m.mode) + Locks(m.kind) + Locks(m.kind)
    BY <2>1, ScriptTable
  <2> QED
    BY <2>2, Offsets
<1>3. \A q \in Run : runs'[q].pc <= Len(Script(runs'[q].kind, runs'[q].mode))
  BY <1>1, <1>2 DEF TypeOK, ScriptOf
<1>4. \A k \in 1 .. 20 : ~Past(r, k)'
  <2>1. \A k \in 1 .. 20 : ~(m.pc > Locks(m.kind) + k)
    BY Offsets
  <2> QED
    BY <1>1, <2>1 DEF Past
<1>5. \A q \in Run \ {r}, k \in 1 .. 20 : Past(q, k)' <=> Past(q, k)
  BY <1>1 DEF Past
<1> QED
  BY <1>1, <1>3, <1>4, <1>5 DEF ScriptOf

(* A run begins or ends early; the tables stay as they are.                *)
Restart(r, m) ==
  /\ m.pc \in 0 .. 1 /\ m.mode = "allowlist" /\ runs' = [runs EXCEPT ![r] = m]
  /\ UNCHANGED <<guard, chain, flows, inside, verify, boots>>
  /\ boot # "off" /\ boot' \in {boot, "script", "failed"}
  /\ squid' \in {squid, "down"} /\ squidConf' \in Modes /\ modeFile' \in Modes
  /\ loosened' \in BOOLEAN /\ broken' \in BOOLEAN
  /\ ~loosened' => ~loosened /\ modeFile' = "allowlist"
  /\ switches' \in 0 .. MaxSwitches /\ faults' \in 0 .. MaxFaults

LEMMA Restarted ==
  ASSUME FirewallInv, NEW r \in Run, NEW m \in RunRecord, Restart(r, m)
  PROVE  FirewallInv'
<1>1. /\ runs' \in [Run -> RunRecord]
      /\ \A q \in Run : runs'[q].pc <= Len(ScriptOf(q))'
      /\ \A q \in Run : runs'[q].mode \in {runs[q].mode, "allowlist"}
      /\ \A q \in Run, k \in 1 .. 20 : Past(q, k)' => Past(q, k)
  BY Replaced DEF FirewallInv, Restart
<1>2. \A q \in Run, k \in {2, 3, 7} : Past(q, k)' => Past(q, k)
  BY <1>1
<1>3. /\ TypeOK /\ chain \in Chains /\ Off /\ PolicyFirst /\ Admitted /\ Strict /\ Filtered
  BY DEF FirewallInv
<1>4. /\ chain' = chain /\ guard' = guard /\ flows' = flows /\ agent' = agent
      /\ ungated' = ungated /\ verify' = verify /\ boots' = boots
  BY DEF inside, Restart
<1>5. /\ boot' # "off" /\ boot' \in {boot, "script", "failed"}
      /\ squid' \in {squid, "down"} /\ squidConf' \in Modes /\ modeFile' \in Modes
      /\ loosened' \in BOOLEAN /\ broken' \in BOOLEAN
      /\ ~loosened' => ~loosened /\ modeFile' = "allowlist"
      /\ switches' \in 0 .. MaxSwitches /\ faults' \in 0 .. MaxFaults
  BY DEF Restart
<1>6. TypeOK'
  BY <1>1, <1>3, <1>4, <1>5 DEF TypeOK
<1>7. PolicyFirst'
  <2>1. boot' = "done" => boot = "done"
    BY <1>5
  <2> QED
    BY <1>2, <1>3, <1>4, <2>1 DEF PolicyFirst
<1>8. Admitted' /\ Off' /\ Filtered'
  BY <1>3, <1>4, <1>5 DEF Admitted, Off, Filtered, NeverUnfiltered
<1>9. Strict'
  <2> SUFFICES ASSUME ~loosened'
               PROVE  /\ modeFile' = "allowlist" /\ verify' \in {"none", "allowlist"}
                      /\ \A q \in Run : runs'[q].mode = "allowlist"
                      /\ \A i \in DOMAIN chain'["iptables"].rules :
                           Tame(chain'["iptables"].rules[i])
                      /\ (\E q \in Run : Past(q, 2)') \/ chain'["iptables"].policy = "DROP"
                           => squid' \in {"down", "allowlist"}
    BY DEF Strict
  <2> QED
    BY <1>1, <1>2, <1>3, <1>4, <1>5 DEF Strict
<1> QED
  BY <1>3, <1>4, <1>6, <1>7, <1>8, <1>9 DEF FirewallInv

LEMMA BeginAndEnd ==
  ASSUME FirewallInv, NEW r \in Run,
         (\E m \in Modes : SwitchMode(r, m)) \/ SandboxBoot(r) \/ CheckFails(r) \/ StepFails(r)
  PROVE  FirewallInv'
<1>1. /\ TypeOK /\ Off /\ squidConf \in Modes /\ modeFile \in Modes
      /\ loosened \in BOOLEAN /\ broken \in BOOLEAN /\ runs[r].mode \in Modes
      /\ switches \in 0 .. MaxSwitches /\ faults \in 0 .. MaxFaults
      /\ (~loosened => modeFile = "allowlist")
  BY Runs DEF FirewallInv, TypeOK, Strict
<1>2. CASE \E m \in Modes : SwitchMode(r, m)
  <2>1. PICK m \in Modes : SwitchMode(r, m)
    BY <1>2
  <2> DEFINE n == [NoRun EXCEPT !.pc = 1]
  <2>2. n \in RunRecord /\ n.pc = 1 /\ n.mode = "allowlist"
    BY DEF NoRun, RunRecord, Modes
  <2>3. runs' = [runs EXCEPT ![r] = n] /\ boot # "off"
    BY <2>1 DEF SwitchMode
  <2> HIDE DEF n
  <2>4. switches' \in 0 .. MaxSwitches
    BY <1>1, <2>1, BoundsAssumption DEF SwitchMode
  <2>5. loosened' \in BOOLEAN /\ (~loosened' => ~loosened /\ modeFile' = "allowlist")
    BY <1>1, <2>1 DEF SwitchMode
  <2>6. /\ UNCHANGED <<guard, chain, flows, inside, verify, boots>>
        /\ boot' = boot /\ squid' = squid /\ squidConf' = squidConf
        /\ modeFile' = m /\ broken' = broken /\ faults' = faults
    BY <2>1 DEF SwitchMode
  <2>7. /\ squid' \in {squid, "down"} /\ squidConf' \in Modes /\ modeFile' \in Modes
        /\ boot' \in {boot, "script", "failed"} /\ loosened' \in BOOLEAN
        /\ broken' \in BOOLEAN /\ switches' \in 0 .. MaxSwitches /\ faults' \in 0 .. MaxFaults
    BY <1>1, <2>4, <2>5, <2>6
  <2>8. ~loosened' => ~loosened /\ modeFile' = "allowlist"
    BY <2>5
  <2>9. Restart(r, n)
    BY <2>2, <2>3, <2>6, <2>7, <2>8 DEF Restart
  <2> QED
    BY <2>2, <2>9, Restarted
<1>3. CASE SandboxBoot(r)
  <2> DEFINE n == [NoRun EXCEPT !.kind = "boot", !.pc = 1]
  <2>2. n \in RunRecord /\ n.pc = 1 /\ n.mode = "allowlist"
    BY DEF NoRun, RunRecord, Modes
  <2>3. runs' = [runs EXCEPT ![r] = n] /\ boot # "off" /\ boot' = "script"
    BY <1>3 DEF SandboxBoot
  <2> HIDE DEF n
  <2>4. /\ UNCHANGED <<guard, chain, flows, inside, verify, boots>>
        /\ squid' = squid /\ squidConf' = squidConf /\ modeFile' = modeFile
        /\ broken' = broken /\ loosened' = loosened
        /\ switches' = switches /\ faults' = faults
    BY <1>3 DEF SandboxBoot, guest, bounds
  <2>7. /\ squid' \in {squid, "down"} /\ squidConf' \in Modes /\ modeFile' \in Modes
        /\ boot' \in {boot, "script", "failed"} /\ loosened' \in BOOLEAN
        /\ broken' \in BOOLEAN /\ switches' \in 0 .. MaxSwitches /\ faults' \in 0 .. MaxFaults
    BY <1>1, <2>3, <2>4
  <2>8. ~loosened' => ~loosened /\ modeFile' = "allowlist"
    BY <1>1, <2>4
  <2>9. Restart(r, n)
    BY <2>2, <2>3, <2>4, <2>7, <2>8 DEF Restart
  <2> QED
    BY <2>2, <2>9, Restarted
<1>4. CASE CheckFails(r) \/ StepFails(r)
  <2>1. /\ runs' = [runs EXCEPT ![r] = NoRun] /\ broken' = TRUE
        /\ boot' \in {boot, "failed"}
        /\ UNCHANGED <<guard, chain, flows, inside, modeFile, verify, loosened, boots,
                       switches>>
    BY <1>4 DEF CheckFails, StepFails, EndInFailure
  <2>2. boot # "off"
    BY <1>1, <1>4 DEF CheckFails, StepFails, Doing, Off
  <2>3. faults' \in 0 .. MaxFaults
    BY <1>1, <1>4, BoundsAssumption DEF CheckFails, StepFails
  <2>4. squid' \in {squid, "down"} /\ squidConf' \in Modes
    BY <1>1, <1>4 DEF CheckFails, StepFails
  <2>7. /\ squid' \in {squid, "down"} /\ squidConf' \in Modes /\ modeFile' \in Modes
        /\ boot' \in {boot, "script", "failed"} /\ loosened' \in BOOLEAN
        /\ broken' \in BOOLEAN /\ switches' \in 0 .. MaxSwitches /\ faults' \in 0 .. MaxFaults
    BY <1>1, <2>1, <2>3, <2>4
  <2>8. ~loosened' => ~loosened /\ modeFile' = "allowlist"
    BY <1>1, <2>1
  <2>9. Restart(r, NoRun)
    BY <2>1, <2>2, <2>7, <2>8, NoRunType DEF Restart
  <2> QED
    BY NoRunType, <2>9, Restarted
<1> QED
  BY <1>2, <1>3, <1>4

LEMMA ReadModeInv == ASSUME FirewallInv, NEW r \in Run, ReadMode(r) PROVE FirewallInv'
<1> DEFINE b == Locks(runs[r].kind)
           n == [runs[r] EXCEPT !.mode = modeFile, !.pc = runs[r].pc + 1]
<1>0. /\ TypeOK /\ chain \in Chains /\ Off /\ PolicyFirst /\ Admitted /\ Strict /\ Filtered
  BY DEF FirewallInv
<1>a. ~Idle(r)
  BY DEF ReadMode, Doing
<1>1. /\ b \in 0 .. 1 /\ runs[r] \in RunRecord /\ modeFile \in Modes
      /\ runs \in [Run -> RunRecord] /\ runs[r].pc = b + 1
  <2>1. runs[r].pc = b + 1
    BY <1>0, <1>a, Doings DEF ReadMode
  <2> QED
    BY <1>0, <2>1, Runs DEF TypeOK
<1>2. /\ n \in RunRecord /\ n.pc = b + 2 /\ n.kind = runs[r].kind /\ n.mode = modeFile
  <2>1. n.pc = runs[r].pc + 1 /\ n.kind = runs[r].kind /\ n.mode = modeFile
    BY <1>1 DEF RunRecord
  <2>2. runs[r].pc + 1 = b + 2 /\ runs[r].pc + 1 \in Nat
    BY <1>1
  <2>3. n \in RunRecord
    BY <1>1, <2>2 DEF RunRecord
  <2> QED
    BY <2>1, <2>2, <2>3
<1>3. runs' = [runs EXCEPT ![r] = n]
  BY <1>1 DEF ReadMode
<1> HIDE DEF n
<1>4. /\ runs' \in [Run -> RunRecord] /\ runs'[r] = n
      /\ \A q \in Run \ {r} : runs'[q] = runs[q]
  BY <1>1, <1>2, <1>3
<1>5. n.pc <= Len(Script(n.kind, n.mode))
  <2>1. n.kind \in {"boot", "switch"} /\ n.mode \in Modes
    BY <1>2 DEF RunRecord
  <2>2. Len(Script(n.kind, n.mode)) = 25 + Gate + Opens(n.mode) + Locks(n.kind) + Locks(n.kind)
    BY <2>1, ScriptTable
  <2> QED
    BY <1>1, <1>2, <2>2, Offsets
<1>6. \A q \in Run : runs'[q].pc <= Len(ScriptOf(q))'
  <2>1. \A q \in Run : runs'[q].pc <= Len(Script(runs'[q].kind, runs'[q].mode))
    BY <1>0, <1>4, <1>5 DEF TypeOK, ScriptOf
  <2> QED
    BY <2>1 DEF ScriptOf
<1>7. \A q \in Run, k \in {2, 3, 7} : Past(q, k)' => Past(q, k)
  <2>1. \A q \in Run \ {r}, k \in {2, 3, 7} : Past(q, k)' <=> Past(q, k)
    BY <1>4 DEF Past
  <2>2. \A k \in {2, 3, 7} : ~Past(r, k)'
    BY <1>1, <1>2, <1>4 DEF Past
  <2> QED
    BY <2>1, <2>2
<1>8. /\ chain' = chain /\ guard' = guard /\ flows' = flows /\ agent' = agent
      /\ ungated' = ungated /\ squidConf' = squidConf /\ squid' = squid /\ boot' = boot
      /\ modeFile' = modeFile /\ loosened' = loosened /\ verify' = verify
      /\ broken' = broken /\ boots' = boots /\ switches' = switches /\ faults' = faults
  BY DEF ReadMode, inside, guest, bounds
<1>9. TypeOK'
  BY <1>0, <1>4, <1>6, <1>8 DEF TypeOK
<1>10. Off' /\ Admitted' /\ Filtered'
  BY <1>0, <1>8, <1>a DEF Off, Admitted, Filtered, NeverUnfiltered
<1>11. PolicyFirst'
  BY <1>0, <1>7, <1>8 DEF PolicyFirst
<1>12. Strict'
  <2>1. ~loosened => \A q \in Run : runs'[q].mode = "allowlist"
    BY <1>0, <1>2, <1>4 DEF Strict
  <2> QED
    BY <1>0, <1>7, <1>8, <2>1 DEF Strict
<1> QED
  BY <1>0, <1>8, <1>9, <1>10, <1>11, <1>12 DEF FirewallInv

LEMMA RestartSquidInv ==
  ASSUME FirewallInv, NEW r \in Run, RestartSquid(r) PROVE FirewallInv'
<1>0. /\ TypeOK /\ chain \in Chains /\ Off /\ PolicyFirst /\ Admitted /\ Strict /\ Filtered
  BY DEF FirewallInv
<1>a. ~Idle(r) /\ Done(r)
  BY DEF RestartSquid, Doing
<1>1. /\ Locks(runs[r].kind) \in 0 .. 1 /\ runs[r].pc = Locks(runs[r].kind) + 2
      /\ runs[r].mode \in Modes
  BY <1>0, <1>a, Runs, Doings DEF RestartSquid
<1>2. /\ runs' \in [Run -> RunRecord]
      /\ \A q \in Run : runs'[q].pc <= Len(ScriptOf(q))'
      /\ \A q \in Run : runs'[q].mode \in {runs[q].mode, "allowlist"}
      /\ \A q \in Run, k \in 0 .. 20 :
           Past(q, k)' => \/ Past(q, k)
                          \/ q = r /\ runs[r].pc = Locks(runs[r].kind) + k
  BY <1>0, <1>a, Moves
<1>3. \A q \in Run, k \in {3, 7} : Past(q, k)' => Past(q, k)
  BY <1>1, <1>2
<1>4. /\ chain' = chain /\ guard' = guard /\ flows' = flows /\ agent' = agent
      /\ ungated' = ungated /\ squidConf' = runs[r].mode /\ squid' = runs[r].mode
      /\ boot' = boot /\ modeFile' = modeFile /\ loosened' = loosened /\ verify' = verify
      /\ broken' = broken /\ boots' = boots /\ switches' = switches /\ faults' = faults
  BY DEF RestartSquid, inside, bounds
<1>5. TypeOK'
  BY <1>0, <1>1, <1>2, <1>4 DEF TypeOK
<1>6. Off' /\ Admitted' /\ Filtered'
  BY <1>0, <1>4, <1>a DEF Off, Admitted, Filtered, NeverUnfiltered
<1>7. PolicyFirst'
  BY <1>0, <1>3, <1>4 DEF PolicyFirst
<1>8. Strict'
  BY <1>0, <1>2, <1>4 DEF Strict
<1> QED
  BY <1>0, <1>4, <1>5, <1>6, <1>7, <1>8 DEF FirewallInv

LEMMA Appended ==
  ASSUME NEW s \in Seq(RuleSet), NEW rule \in RuleSet
  PROVE  /\ DOMAIN s = 1 .. Len(s) /\ Len(s) \in Nat
         /\ DOMAIN Append(s, rule) = 1 .. Len(s) + 1
         /\ \A i \in 1 .. Len(s) : Append(s, rule)[i] = s[i]
         /\ Append(s, rule)[Len(s) + 1] = rule
         /\ \A i \in 1 .. Len(s) + 1 : i \in 1 .. Len(s) \/ i = Len(s) + 1
<1> HIDE DEF RuleSet
<1> QED
  OBVIOUS

LEMMA IptablesInv == ASSUME FirewallInv, NEW r \in Run, Iptables(r) PROVE FirewallInv'
<1> DEFINE b == Locks(runs[r].kind)
<1>0. /\ TypeOK /\ chain \in Chains /\ Off /\ PolicyFirst /\ Admitted /\ Strict /\ Filtered
  BY DEF FirewallInv
<1>a. ~Idle(r) /\ Done(r)
  BY DEF Iptables, Doing
<1>1. /\ b \in 0 .. 1 /\ runs[r].pc \in Nat /\ runs[r].mode \in Modes
      /\ "iptables" \in Tables /\ "ip6tables" \in Tables
      /\ \A t \in Tables : /\ chain[t].rules \in Seq(RuleSet)
                           /\ chain[t].policy \in {"ACCEPT", "DROP"}
  BY <1>0, Runs DEF Tables, Chains
<1>2. /\ runs' \in [Run -> RunRecord]
      /\ \A q \in Run : runs'[q].pc <= Len(ScriptOf(q))'
      /\ \A q \in Run : runs'[q].mode \in {runs[q].mode, "allowlist"}
      /\ \A q \in Run, k \in 0 .. 20 :
           Past(q, k)' => Past(q, k) \/ (q = r /\ runs[r].pc = b + k)
  BY <1>0, <1>a, Moves
<1>3. /\ guard' = guard /\ flows' = flows /\ agent' = agent
      /\ ungated' = ungated /\ squidConf' = squidConf /\ squid' = squid /\ boot' = boot
      /\ modeFile' = modeFile /\ loosened' = loosened /\ verify' = verify
      /\ broken' = broken /\ boots' = boots /\ switches' = switches /\ faults' = faults
  BY DEF Iptables, inside, guest, bounds
<1>4. chain' \in Chains
  BY <1>0, IptablesDoes
<1>5. PICK t \in Tables :
        /\ \A u \in Tables \ {t} : chain'[u] = chain[u]
        /\ Drops(r, t) \/ Flushes(r, t) \/ \E rule \in RuleSet : Appends(r, t, rule)
  BY <1>0, IptablesDoes
<1> DEFINE at == IF t = "iptables" THEN 3 ELSE 7
<1>6. /\ Drops(r, t) => /\ runs[r].pc = b + at
                        /\ chain'[t].policy = "DROP" /\ chain'[t].rules = chain[t].rules
      /\ ~Drops(r, t) => /\ runs[r].pc > b + at /\ Past(r, at)
                         /\ chain'[t].policy = chain[t].policy
  BY <1>1, <1>5 DEF Drops, Flushes, Appends, Past
<1>7. runs[r].pc >= b + 3
  BY <1>1, <1>6
<1>8. /\ runs[r].pc = b + 3 => t = "iptables" /\ Drops(r, t)
      /\ runs[r].pc = b + 7 /\ t = "ip6tables" => Drops(r, t)
      /\ t = "iptables" => at = 3
      /\ t # "iptables" => t = "ip6tables" /\ at = 7
  BY <1>1, <1>6 DEF Tables
<1>9. chain[t].policy = "ACCEPT" => Drops(r, t)
  BY <1>0, <1>6, <1>8 DEF PolicyFirst
<1>10. \A u \in Tables : chain[u].policy = "DROP" => chain'[u].policy = "DROP"
  BY <1>5, <1>6
<1>11. \A u \in Tables : chain'[u].policy = "ACCEPT" =>
         chain[u].policy = "ACCEPT" /\ chain'[u].rules = chain[u].rules
  BY <1>1, <1>5, <1>6, <1>9
<1>12. runs[r].pc = b + 7 => chain'["ip6tables"].policy = "DROP"
  BY <1>1, <1>5, <1>6, <1>8 DEF Drops, Flushes, Appends, Tables
<1>13. TypeOK'
  <2>1. \A u \in Tables : chain'[u].policy \in {"ACCEPT", "DROP"}
    BY <1>4 DEF Chains
  <2> QED
    BY <1>0, <1>2, <1>3, <2>1 DEF TypeOK
<1>14. Off'
  BY <1>0, <1>3, <1>a DEF Off
<1>15. PolicyFirst'
  <2>1. ASSUME NEW q \in Run
        PROVE  /\ Past(q, 3)' => chain'["iptables"].policy = "DROP"
               /\ Past(q, 7)' => chain'["ip6tables"].policy = "DROP"
    <3>1. /\ Past(q, 3)' => Past(q, 3) \/ runs[r].pc = b + 3
          /\ Past(q, 7)' => Past(q, 7) \/ runs[r].pc = b + 7
      BY <1>2
    <3>2. runs[r].pc = b + 3 => chain'["iptables"].policy = "DROP"
      BY <1>6, <1>8
    <3> QED
      BY <1>0, <1>1, <1>10, <1>12, <3>1, <3>2 DEF PolicyFirst
  <2>2. boot' = "done" => \A u \in Tables : chain'[u].policy = "DROP"
    BY <1>0, <1>3, <1>10 DEF PolicyFirst
  <2>3. \A u \in Tables : chain'[u].policy = "ACCEPT" /\ guard' = "active"
                             => chain'[u].rules = <<GuardRule(u)>>
    BY <1>0, <1>3, <1>11 DEF PolicyFirst
  <2> QED
    BY <2>1, <2>2, <2>3 DEF PolicyFirst
<1>16. Admitted'
  BY <1>0, <1>3, <1>10 DEF Admitted
<1>17. ASSUME NEW u \in Tables, \A i \in DOMAIN chain[u].rules : Tame(chain[u].rules[i]),
              u = "ip6tables" \/ Opens(runs[r].mode) = 0
       PROVE  \A i \in DOMAIN chain'[u].rules : Tame(chain'[u].rules[i])
  <2>1. CASE u # t \/ Drops(r, t)
    BY <1>5, <1>17, <2>1 DEF Drops
  <2>2. CASE u = t /\ Flushes(r, t)
    BY <2>2 DEF Flushes
  <2>3. CASE u = t /\ \E rule \in RuleSet : Appends(r, t, rule)
    <3>1. PICK rule \in RuleSet : Appends(r, t, rule)
      BY <2>3
    <3>2. Tame(rule)
      BY <1>17, <2>3, <3>1 DEF Appends
    <3>3. chain'[u].rules = Append(chain[u].rules, rule) /\ chain[u].rules \in Seq(RuleSet)
      BY <1>1, <2>3, <3>1 DEF Appends
    <3> DEFINE s == chain[u].rules
    <3>4. /\ DOMAIN s = 1 .. Len(s) /\ DOMAIN Append(s, rule) = 1 .. Len(s) + 1
          /\ \A i \in 1 .. Len(s) : Append(s, rule)[i] = s[i]
          /\ Append(s, rule)[Len(s) + 1] = rule
          /\ \A i \in 1 .. Len(s) + 1 : i \in 1 .. Len(s) \/ i = Len(s) + 1
      BY <3>3, Appended
    <3>5. \A i \in 1 .. Len(s) : Tame(s[i])
      BY <1>17, <3>4
    <3>6. chain'[u].rules = Append(s, rule)
      BY <3>3
    <3> HIDE DEF s
    <3> QED
      BY <3>2, <3>4, <3>5, <3>6
  <2> QED
    BY <1>5, <2>1, <2>2, <2>3
<1>18. Strict'
  <2> SUFFICES ASSUME ~loosened
               PROVE  /\ modeFile' = "allowlist" /\ verify' \in {"none", "allowlist"}
                      /\ \A q \in Run : runs'[q].mode = "allowlist"
                      /\ \A i \in DOMAIN chain'["iptables"].rules :
                           Tame(chain'["iptables"].rules[i])
                      /\ (\E q \in Run : Past(q, 2)') \/ chain'["iptables"].policy = "DROP"
                           => squid' \in {"down", "allowlist"}
    BY <1>3 DEF Strict
  <2>1. /\ modeFile = "allowlist" /\ verify \in {"none", "allowlist"}
        /\ \A q \in Run : runs[q].mode = "allowlist"
        /\ \A i \in DOMAIN chain["iptables"].rules : Tame(chain["iptables"].rules[i])
        /\ (\E q \in Run : Past(q, 2)) => squid \in {"down", "allowlist"}
    BY <1>0 DEF Strict
  <2>2. Past(r, 2)
    BY <1>1, <1>7 DEF Past
  <2>3. Opens(runs[r].mode) = 0
    BY <2>1 DEF Opens
  <2>4. \A i \in DOMAIN chain'["iptables"].rules : Tame(chain'["iptables"].rules[i])
    BY <1>1, <1>17, <2>1, <2>3
  <2> QED
    BY <1>2, <1>3, <2>1, <2>2, <2>4
<1>19. Filtered'
  <2>1. \A i \in DOMAIN chain'["ip6tables"].rules : Tame(chain'["ip6tables"].rules[i])
    BY <1>0, <1>1, <1>17 DEF Filtered
  <2> QED
    BY <1>0, <1>3, <2>1 DEF Filtered, NeverUnfiltered
<1> QED
  BY <1>4, <1>13, <1>14, <1>15, <1>16, <1>18, <1>19 DEF FirewallInv

LEMMA SquidCrashesInv == ASSUME FirewallInv, SquidCrashes PROVE FirewallInv'
<1>0. /\ TypeOK /\ chain \in Chains /\ Off /\ PolicyFirst /\ Admitted /\ Strict /\ Filtered
  BY DEF FirewallInv
<1>1. /\ chain' = chain /\ guard' = guard /\ flows' = flows /\ agent' = agent
      /\ ungated' = ungated /\ squidConf' = squidConf /\ squid' = "down" /\ boot' = boot
      /\ modeFile' = modeFile /\ loosened' = loosened /\ verify' = verify
      /\ runs' = runs /\ broken' = broken /\ boots' = boots /\ switches' = switches
  BY DEF SquidCrashes, inside
<1>2. faults' \in 0 .. MaxFaults
  BY <1>0, BoundsAssumption DEF SquidCrashes, TypeOK
<1>3. \A q \in Run, k \in {2, 3, 7} : Past(q, k)' <=> Past(q, k)
  BY <1>1 DEF Past
<1>4. TypeOK'
  BY <1>0, <1>1, <1>2 DEF TypeOK, ScriptOf
<1>5. Off' /\ Admitted' /\ Filtered' /\ Strict'
  BY <1>0, <1>1 DEF Off, Admitted, Filtered, NeverUnfiltered, Strict, Idle
<1>6. PolicyFirst'
  BY <1>0, <1>1, <1>3 DEF PolicyFirst
<1> QED
  BY <1>0, <1>1, <1>4, <1>5, <1>6 DEF FirewallInv

LEMMA DieUntrappedInv == ASSUME FirewallInv, DieUntrapped PROVE FirewallInv'
<1>0. /\ TypeOK /\ chain \in Chains /\ Off /\ PolicyFirst /\ Admitted /\ Strict /\ Filtered
  BY DEF FirewallInv
<1>1. /\ chain' = chain /\ guard' = guard /\ flows' = flows /\ agent' = agent
      /\ ungated' = ungated /\ squidConf' = squidConf /\ squid' = squid /\ boot' = "dead"
      /\ modeFile' = modeFile /\ loosened' = loosened /\ verify' = verify
      /\ runs' = runs /\ broken' = broken /\ boots' = boots /\ switches' = switches
  BY DEF DieUntrapped, inside, guest
<1>2. faults' \in 0 .. MaxFaults
  BY <1>0, BoundsAssumption DEF DieUntrapped, TypeOK
<1>3. \A q \in Run, k \in {2, 3, 7} : Past(q, k)' <=> Past(q, k)
  BY <1>1 DEF Past
<1>4. TypeOK'
  BY <1>0, <1>1, <1>2 DEF TypeOK, ScriptOf
<1>5. Off' /\ Admitted' /\ Filtered' /\ Strict'
  BY <1>0, <1>1, <1>3 DEF Off, Admitted, Filtered, NeverUnfiltered, Strict, Idle
<1>6. PolicyFirst'
  BY <1>0, <1>1, <1>3 DEF PolicyFirst
<1> QED
  BY <1>0, <1>1, <1>4, <1>5, <1>6 DEF FirewallInv

LEMMA AgentStartsInv == ASSUME FirewallInv, AgentStarts PROVE FirewallInv'
<1>0. /\ TypeOK /\ chain \in Chains /\ Off /\ PolicyFirst /\ Admitted /\ Strict /\ Filtered
  BY DEF FirewallInv
<1>1. /\ chain' = chain /\ guard' = guard /\ flows' = flows /\ agent' = TRUE /\ ~agent
      /\ squidConf' = squidConf /\ squid' = squid /\ boot' = boot
      /\ modeFile' = modeFile /\ loosened' = loosened /\ verify' = verify
      /\ runs' = runs /\ broken' = broken /\ boots' = boots /\ switches' = switches
      /\ faults' = faults
  BY DEF AgentStarts, guest, bounds
<1>2. ungated' \in BOOLEAN /\ (~ungated' => guard = "active" \/ boot = "done")
  BY DEF AgentStarts
<1>3. \A q \in Run, k \in {2, 3, 7} : Past(q, k)' <=> Past(q, k)
  BY <1>1 DEF Past
<1>4. TypeOK'
  BY <1>0, <1>1, <1>2 DEF TypeOK, ScriptOf
<1>5. Off' /\ Strict'
  <2>1. boot # "off"
    BY DEF AgentStarts
  <2> QED
    BY <1>0, <1>1, <1>3, <2>1 DEF Off, Strict, Idle
<1>6. PolicyFirst'
  BY <1>0, <1>1, <1>3 DEF PolicyFirst
<1>7. flows = {}
  BY <1>0, <1>1 DEF Admitted
<1>8. Filtered'
  BY <1>0, <1>1, <1>7 DEF Filtered, NeverUnfiltered
<1>9. Admitted'
  BY <1>0, <1>1, <1>2 DEF Admitted, PolicyFirst
<1> QED
  BY <1>0, <1>1, <1>4, <1>5, <1>6, <1>8, <1>9 DEF FirewallInv

(* The tables let no new connection through to what the agent must not      *)
(* reach, as long as every rule that matches it is tame.                    *)
LEMMA TameRefuses ==
  ASSUME FirewallInv, agent, ~ungated, NEW p \in Tracked, p \notin flows,
         \A i \in DOMAIN chain[TableOf(p)].rules : Tame(chain[TableOf(p)].rules[i])
  PROVE  ~Accepted(p)
<1> DEFINE t == TableOf(p)
           rules == chain[t].rules
<1>1. t \in Tables /\ p \in GuardRule(t).match /\ GuardRule(t).verdict = "REJECT"
  BY DEF TableOf, Tables, GuardRule, Rule, Tracked, Agent6, Agent4
<1>2. ASSUME NEW i \in DOMAIN rules, Hits(rules[i], p), rules[i].verdict = "ACCEPT"
      PROVE  FALSE
  BY <1>2 DEF Hits, Tame
<1>3. ASSUME chain[t].policy = "ACCEPT", \A i \in DOMAIN rules : ~Hits(rules[i], p)
      PROVE  FALSE
  <2>1. guard = "active"
    BY <1>1, <1>3 DEF FirewallInv, Admitted
  <2>2. rules = <<GuardRule(t)>>
    BY <1>1, <1>3, <2>1 DEF FirewallInv, PolicyFirst
  <2>3. 1 \in DOMAIN rules /\ rules[1] = GuardRule(t)
    BY <2>2
  <2> QED
    BY <1>1, <1>3, <2>3 DEF Hits
<1> HIDE DEF t
<1>4. Accepted(p) => \/ \E i \in DOMAIN rules : Hits(rules[i], p) /\ rules[i].verdict = "ACCEPT"
                     \/ chain[t].policy = "ACCEPT" /\ \A i \in DOMAIN rules : ~Hits(rules[i], p)
  BY DEF Accepted, t
<1> QED
  BY <1>2, <1>3, <1>4

LEMMA ConnectInv == ASSUME FirewallInv, NEW p \in Tracked, Connect(p) PROVE FirewallInv'
<1>0. /\ TypeOK /\ chain \in Chains /\ Off /\ PolicyFirst /\ Admitted /\ Strict /\ Filtered
  BY DEF FirewallInv
<1>1. /\ chain' = chain /\ guard' = guard /\ agent' = agent /\ ungated' = ungated
      /\ squidConf' = squidConf /\ squid' = squid /\ boot' = boot
      /\ modeFile' = modeFile /\ loosened' = loosened /\ verify' = verify
      /\ runs' = runs /\ broken' = broken /\ boots' = boots /\ switches' = switches
      /\ faults' = faults /\ flows' = flows \union {p}
      /\ agent /\ p \notin flows /\ Accepted(p)
  BY DEF Connect, inside, guest, bounds
<1>3. \A q \in Run, k \in {2, 3, 7} : Past(q, k)' <=> Past(q, k)
  BY <1>1 DEF Past
<1>4. TypeOK'
  BY <1>0, <1>1 DEF TypeOK, ScriptOf
<1>5. Off' /\ Strict' /\ Admitted'
  BY <1>0, <1>1, <1>3 DEF Off, Strict, Idle, Admitted
<1>6. PolicyFirst'
  BY <1>0, <1>1, <1>3 DEF PolicyFirst
<1>7. ~loosened /\ ~ungated => p # "web"
  <2> SUFFICES ASSUME ~loosened, ~ungated, p = "web" PROVE FALSE
    OBVIOUS
  <2>1. TableOf(p) = "iptables"
    BY DEF TableOf, Agent6
  <2>2. \A i \in DOMAIN chain["iptables"].rules : Tame(chain["iptables"].rules[i])
    BY <1>0 DEF Strict
  <2> QED
    BY <1>1, <2>1, <2>2, TameRefuses
<1>8. ~ungated => p # "gateway6"
  <2> SUFFICES ASSUME ~ungated, p = "gateway6" PROVE FALSE
    OBVIOUS
  <2>1. TableOf(p) = "ip6tables"
    BY DEF TableOf, Agent6
  <2>2. \A i \in DOMAIN chain["ip6tables"].rules : Tame(chain["ip6tables"].rules[i])
    BY <1>0 DEF Filtered
  <2> QED
    BY <1>1, <2>1, <2>2, TameRefuses
<1>9. Filtered'
  BY <1>0, <1>1, <1>7, <1>8 DEF Filtered, NeverUnfiltered
<1> QED
  BY <1>0, <1>1, <1>4, <1>5, <1>6, <1>9 DEF FirewallInv

LEMMA PowerInv == ASSUME FirewallInv, Boot \/ PowerOff PROVE FirewallInv'
<1>0. /\ TypeOK /\ chain \in Chains /\ Off /\ PolicyFirst /\ Admitted /\ Strict /\ Filtered
  BY DEF FirewallInv
<1>1. <<>> \in Seq(RuleSet) /\ \A t \in Tables : <<GuardRule(t)>> \in Seq(RuleSet)
  <2>1. \A t \in Tables : GuardRule(t) \in RuleSet
    BY RuleTypes
  <2> HIDE DEF RuleSet
  <2> QED
    BY <2>1
<1>2. /\ EmptyChain \in Chains
      /\ \A t \in Tables : EmptyChain[t].policy = "ACCEPT" /\ EmptyChain[t].rules = <<>>
  BY <1>1 DEF EmptyChain, Chains
<1>3. /\ GuardedChain \in Chains
      /\ \A t \in Tables : /\ GuardedChain[t].policy = "ACCEPT"
                           /\ GuardedChain[t].rules = <<GuardRule(t)>>
  BY <1>1 DEF GuardedChain, Chains
<1>4. "iptables" \in Tables /\ "ip6tables" \in Tables
  BY DEF Tables
<1>5. ASSUME Boot PROVE FirewallInv'
  <2>1. /\ boot = "off" /\ boot' = "booting" /\ flows' = flows /\ agent' = agent
        /\ ungated' = ungated /\ squidConf' = squidConf /\ modeFile' = modeFile
        /\ verify' = verify /\ runs' = runs /\ loosened' = loosened /\ broken' = broken
        /\ switches' = switches /\ faults' = faults /\ squid' \in {"down", squidConf}
        /\ \/ guard' = "active" /\ chain' = GuardedChain
           \/ guard' = "failed" /\ chain' = EmptyChain
    BY <1>5 DEF Boot, inside
  <2>2. boots' \in 0 .. MaxBoots
    BY <1>0, <1>5, BoundsAssumption DEF Boot, TypeOK
  <2>3. \A r \in Run : runs'[r].pc = 0 /\ runs[r].pc = 0
    BY <1>0, <2>1 DEF Off, Idle
  <2>4. \A r \in Run, k \in 0 .. 20 : ~Past(r, k)'
    BY <2>3, Offsets DEF Past
  <2>5. \A t \in Tables : chain'[t].policy = "ACCEPT" /\ chain[t].policy = "ACCEPT"
    BY <1>0, <1>2, <1>3, <2>1 DEF Off
  <2>6. chain' \in Chains
    BY <1>2, <1>3, <2>1
  <2>7. \A t \in Tables : \A i \in DOMAIN chain'[t].rules : Tame(chain'[t].rules[i])
    <3> TAKE t \in Tables
    <3>1. CASE chain' = GuardedChain
      <4>1. chain'[t].rules = <<GuardRule(t)>>
        BY <1>3, <3>1
      <4>2. DOMAIN chain'[t].rules = {1} /\ chain'[t].rules[1] = GuardRule(t)
        BY <4>1
      <4> QED
        BY <4>2, TameRules
    <3>2. CASE chain' = EmptyChain
      BY <1>2, <3>2
    <3> QED
      BY <2>1, <3>1, <3>2
  <2>8. TypeOK'
    <3>1. \A r \in Run : runs'[r].pc <= Len(ScriptOf(r))'
      BY <1>0, <2>1 DEF TypeOK, ScriptOf
    <3> QED
      BY <1>0, <2>1, <2>2, <2>5, <3>1 DEF TypeOK
  <2>9. PolicyFirst'
    <3>1. \A t \in Tables : guard' = "active" => chain'[t].rules = <<GuardRule(t)>>
      BY <1>3, <2>1
    <3> QED
      BY <2>1, <2>4, <3>1 DEF PolicyFirst
  <2>10. ~agent' /\ flows' = {}
    BY <1>0, <2>1 DEF Off, Admitted
  <2>11. Off' /\ Admitted'
    BY <2>1, <2>10 DEF Off, Admitted
  <2>12. Strict'
    <3>1. ~loosened => modeFile = "allowlist" /\ verify \in {"none", "allowlist"}
                         /\ \A q \in Run : runs[q].mode = "allowlist"
      BY <1>0 DEF Strict
    <3>2. \A i \in DOMAIN chain'["iptables"].rules : Tame(chain'["iptables"].rules[i])
      BY <1>4, <2>7
    <3>3. chain'["iptables"].policy # "DROP" /\ ~\E q \in Run : Past(q, 2)'
      BY <1>4, <2>4, <2>5
    <3> QED
      BY <2>1, <3>1, <3>2, <3>3 DEF Strict
  <2>13. Filtered'
    BY <1>4, <2>7, <2>10 DEF Filtered, NeverUnfiltered
  <2> QED
    BY <2>6, <2>8, <2>9, <2>11, <2>12, <2>13 DEF FirewallInv
<1>6. ASSUME PowerOff PROVE FirewallInv'
  <2>1. /\ boot' = "off" /\ guard' = "none" /\ chain' = EmptyChain /\ flows' = {}
        /\ agent' = FALSE /\ ungated' = FALSE /\ squid' = "down"
        /\ modeFile' = "allowlist" /\ verify' = "none" /\ runs' = [r \in Run |-> NoRun]
        /\ loosened' = FALSE /\ broken' = FALSE /\ squidConf' = squidConf
        /\ boots' = boots /\ switches' = switches /\ faults' = faults
    BY <1>6 DEF PowerOff, bounds
  <2>2. \A r \in Run : runs'[r] = NoRun
    BY <2>1
  <2>3. \A r \in Run, k \in 0 .. 20 : ~Past(r, k)'
    BY <2>2, NoRunType, Offsets DEF Past
  <2>4. TypeOK'
    <3>1. runs' \in [Run -> RunRecord]
      BY <2>1, NoRunType
    <3>2. NoRun.pc <= Len(Script(NoRun.kind, NoRun.mode))
      <4>1. NoRun.kind \in {"boot", "switch"} /\ NoRun.mode \in Modes /\ NoRun.pc = 0
        BY DEF NoRun, Modes
      <4>2. Len(Script(NoRun.kind, NoRun.mode)) = 25 + Gate + Opens(NoRun.mode)
                               + Locks(NoRun.kind) + Locks(NoRun.kind)
        BY <4>1, ScriptTable
      <4> QED
        BY <4>1, <4>2, Offsets
    <3>3. \A r \in Run : runs'[r].pc <= Len(ScriptOf(r))'
      BY <2>2, <3>2 DEF ScriptOf
    <3> QED
      BY <1>0, <1>2, <2>1, <3>1, <3>3 DEF TypeOK, Modes
  <2>5. Off' /\ Admitted' /\ PolicyFirst'
    BY <2>1, <2>2, <2>3, NoRunType DEF Off, Admitted, PolicyFirst, Idle
  <2>6. Strict' /\ Filtered'
    BY <1>2, <1>4, <2>1, <2>2, NoRunType DEF Strict, Filtered, NeverUnfiltered
  <2> QED
    BY <1>2, <2>1, <2>4, <2>5, <2>6 DEF FirewallInv
<1> QED
  BY <1>5, <1>6

LEMMA StepInv == ASSUME FirewallInv, Next PROVE FirewallInv'
<1>1. CASE \E p \in Tracked : Connect(p)
  BY <1>1, ConnectInv
<1>2. CASE \E r \in Run : \/ \E m \in Modes : SwitchMode(r, m)
                         \/ SandboxBoot(r) \/ ScriptStep(r) \/ StepFails(r)
  <2>1. PICK r \in Run : \/ \E m \in Modes : SwitchMode(r, m)
                         \/ SandboxBoot(r) \/ ScriptStep(r) \/ StepFails(r)
    BY <1>2
  <2>2. CASE (\E m \in Modes : SwitchMode(r, m)) \/ SandboxBoot(r) \/ StepFails(r)
    BY <2>2, BeginAndEnd
  <2>3. CASE ScriptStep(r)
    BY <2>3, QuietSteps, ReadModeInv, RestartSquidInv, IptablesInv, BeginAndEnd
       DEF ScriptStep
  <2> QED
    BY <2>1, <2>2, <2>3
<1> QED
  BY <1>1, <1>2, PowerInv, AgentStartsInv, SquidCrashesInv, DieUntrappedInv DEF Next

LEMMA StutterInv == ASSUME FirewallInv, UNCHANGED vars PROVE FirewallInv'
<1>0. /\ TypeOK /\ chain \in Chains /\ Off /\ PolicyFirst /\ Admitted /\ Strict /\ Filtered
  BY DEF FirewallInv
<1>1. /\ chain' = chain /\ guard' = guard /\ agent' = agent /\ ungated' = ungated
      /\ squidConf' = squidConf /\ squid' = squid /\ boot' = boot /\ flows' = flows
      /\ modeFile' = modeFile /\ loosened' = loosened /\ verify' = verify
      /\ runs' = runs /\ broken' = broken /\ boots' = boots /\ switches' = switches
      /\ faults' = faults
  BY DEF vars, inside, guest, bounds
<1>3. \A q \in Run, k \in {2, 3, 7} : Past(q, k)' <=> Past(q, k)
  BY <1>1 DEF Past
<1>4. TypeOK'
  BY <1>0, <1>1 DEF TypeOK, ScriptOf
<1>5. Off' /\ Strict' /\ Admitted' /\ Filtered'
  BY <1>0, <1>1, <1>3 DEF Off, Strict, Idle, Admitted, Filtered, NeverUnfiltered
<1>6. PolicyFirst'
  BY <1>0, <1>1, <1>3 DEF PolicyFirst
<1> QED
  BY <1>0, <1>1, <1>4, <1>5, <1>6 DEF FirewallInv

(* The invariant holds in every reachable state, however many runs of the  *)
(* script are under way at once.                                           *)
THEOREM Invariance == Spec => []FirewallInv
<1>1. FirewallInv /\ [Next]_vars => FirewallInv'
  BY StepInv, StutterInv
<1> QED
  BY <1>1, InitInv, PTL DEF Spec

(* The types of the guest's state.                                         *)
THEOREM TypeCorrect == Spec => []TypeOK
<1>1. FirewallInv => TypeOK
  BY DEF FirewallInv
<1> QED
  BY <1>1, Invariance, PTL

(* Until a looser mode is asked for on a boot, no connection of the agent   *)
(* gets past the proxy, whatever commands however many runs have executed.  *)
THEOREM AlwaysFiltered == Spec => []NeverUnfiltered
<1>1. FirewallInv => NeverUnfiltered
  BY DEF FirewallInv, Filtered
<1> QED
  BY <1>1, Invariance, PTL

(* A restart takes the agent back to allowlist: it never reaches a Squid    *)
(* that still runs with the loose configuration of an earlier boot.         *)
THEOREM RestartsRevert == Spec => []RestartReverts
<1>1. FirewallInv => RestartReverts
  <2> SUFFICES ASSUME FirewallInv, ~loosened
               PROVE  /\ verify \in {"none", "allowlist"}
                      /\ agent /\ ~ungated => ~(Accepted("lo") /\ squid \in {"audit", "open"})
    BY DEF RestartReverts
  <2>1. /\ verify \in {"none", "allowlist"}
        /\ chain["iptables"].policy = "DROP" => squid \in {"down", "allowlist"}
    BY DEF FirewallInv, Strict
  <2>2. ASSUME agent, ~ungated, squid \in {"audit", "open"}
        PROVE  ~Accepted("lo")
    <3>1. "iptables" \in Tables /\ TableOf("lo") = "iptables"
      BY DEF Tables, TableOf, Agent6
    <3>2. chain["iptables"].policy = "ACCEPT" /\ guard = "active"
      BY <2>1, <2>2, <3>1 DEF FirewallInv, Chains, Admitted
    <3>3. chain["iptables"].rules = <<GuardRule("iptables")>>
      BY <3>1, <3>2 DEF FirewallInv, PolicyFirst
    <3> DEFINE rules == chain["iptables"].rules
    <3>4. /\ DOMAIN rules = {1} /\ rules[1] = GuardRule("iptables")
          /\ "lo" \in GuardRule("iptables").match
          /\ GuardRule("iptables").verdict # "ACCEPT"
      BY <3>3 DEF GuardRule, Rule, Agent4
    <3> HIDE DEF rules
    <3>5. Hits(rules[1], "lo")
      BY <3>4 DEF Hits
    <3>6. Accepted("lo") <=>
            \/ \E i \in DOMAIN rules :
                 /\ Hits(rules[i], "lo") /\ rules[i].verdict = "ACCEPT"
                 /\ \A j \in 1 .. i - 1 : ~Hits(rules[j], "lo")
            \/ /\ chain["iptables"].policy = "ACCEPT"
               /\ \A i \in DOMAIN rules : ~Hits(rules[i], "lo")
      BY <3>1 DEF Accepted, rules
    <3> QED
      BY <3>4, <3>5, <3>6
  <2> QED
    BY <2>1, <2>2
<1> QED
  BY <1>1, Invariance, PTL

-----------------------------------------------------------------------------
(* One run at a time                                                       *)

Held(rule) == \E i \in DOMAIN chain["iptables"].rules : chain["iptables"].rules[i] = rule
Before(rule, i) == \E j \in 1 .. i - 1 : chain["iptables"].rules[j] = rule

(* What mode=open accepts comes after the rules that keep the agent from    *)
(* foreign resolvers and from the host.                                     *)
Behind ==
  \A i \in DOMAIN chain["iptables"].rules :
    \/ Tame(chain["iptables"].rules[i])
    \/ Before(UdpDrop, i) /\ (HasGateway => Before(GatewayReject, i))

Shielded ==
  /\ \A r \in Run : /\ Past(r, 13) => Held(UdpDrop)
                    /\ Past(r, 15) /\ HasGateway => Held(GatewayReject)
  /\ Behind
  /\ NoHostServices

(* Where the two rules are added.                                          *)
LEMMA ShieldPlaces ==
  ASSUME TypeOK, NEW r \in Run, ~Idle(r)
  PROVE  /\ runs[r].pc = Locks(runs[r].kind) + 13 => Command(r) = Add("iptables", UdpDrop)
         /\ runs[r].pc = Locks(runs[r].kind) + 15 /\ HasGateway
              => Command(r) = Add("iptables", GatewayReject)
<1> DEFINE kind == runs[r].kind  mode == runs[r].mode  S == Script(kind, mode)
<1>1. kind \in {"boot", "switch"} /\ mode \in Modes /\ Command(r) = S[runs[r].pc]
  BY Runs DEF Command, ScriptOf
<1> HIDE DEF kind, mode
<1>2. Gate \in 0 .. 1 /\ Opens(mode) \in 0 .. 1 /\ Locks(kind) \in 0 .. 1
  BY Offsets
<1>3. 11 \in 1 .. 21 + Gate + Opens(mode) /\ 13 \in 1 .. 21 + Gate + Opens(mode)
  BY <1>2
<1>4. \A i \in 1 .. 21 + Gate + Opens(mode) : S[Locks(kind) + 2 + i] = Ruleset(mode)[i]
  BY <1>1, ScriptTable
<1>5. S[Locks(kind) + 2 + 11] = Ruleset(mode)[11] /\ S[Locks(kind) + 2 + 13] = Ruleset(mode)[13]
  BY <1>3, <1>4
<1>6. /\ Ruleset(mode)[11] = Add("iptables", UdpDrop)
      /\ HasGateway => Ruleset(mode)[13] = Add("iptables", GatewayReject)
  BY <1>1, RulesetTable DEF Gate
<1> HIDE DEF S
<1>7. Locks(kind) + 2 + 11 = Locks(kind) + 13 /\ Locks(kind) + 2 + 13 = Locks(kind) + 15
  BY <1>2
<1> QED
  BY <1>1, <1>5, <1>6, <1>7 DEF kind

(* A step that leaves the tables alone passes neither place.               *)
Elsewhere == \A q \in Run, k \in {13, 15} : Past(q, k)' => Past(q, k)

LEMMA Passes ==
  ASSUME TypeOK, NEW r \in Run,
         \/ \E m \in Modes : SwitchMode(r, m)
         \/ SandboxBoot(r) \/ StepFails(r) \/ LockSettings(r) \/ ReadMode(r)
         \/ RestartSquid(r) \/ CheckRules(r) \/ CheckFails(r) \/ RecordVerified(r)
         \/ FinishBoot(r)
  PROVE  Elsewhere
<1> DEFINE b == Locks(runs[r].kind)
<1>1. /\ b \in 0 .. 1 /\ Gate \in 0 .. 1 /\ Opens(runs[r].mode) \in 0 .. 1
      /\ runs[r] \in RunRecord /\ runs[r].pc \in Nat /\ runs \in [Run -> RunRecord]
  BY Runs DEF TypeOK
<1>2. CASE \E n \in RunRecord : n.pc \in 0 .. 1 /\ runs' = [runs EXCEPT ![r] = n]
  <2>1. PICK n \in RunRecord : n.pc \in 0 .. 1 /\ runs' = [runs EXCEPT ![r] = n]
    BY <1>2
  <2>2. \A q \in Run, k \in 1 .. 20 : Past(q, k)' => Past(q, k)
    BY <2>1, Replaced
  <2> QED
    BY <2>2 DEF Elsewhere
<1>3. CASE (\E m \in Modes : SwitchMode(r, m)) \/ SandboxBoot(r)
  <2> DEFINE n == [NoRun EXCEPT !.pc = 1]
             m == [NoRun EXCEPT !.kind = "boot", !.pc = 1]
  <2>1. n \in RunRecord /\ n.pc = 1 /\ m \in RunRecord /\ m.pc = 1
    BY DEF NoRun, RunRecord, Modes
  <2>2. runs' = [runs EXCEPT ![r] = n] \/ runs' = [runs EXCEPT ![r] = m]
    BY <1>3 DEF SwitchMode, SandboxBoot
  <2> HIDE DEF n, m
  <2> QED
    BY <1>2, <2>1, <2>2
<1>4. CASE StepFails(r) \/ CheckFails(r)
  <2>1. runs' = [runs EXCEPT ![r] = NoRun]
    BY <1>4 DEF StepFails, CheckFails, EndInFailure
  <2>2. NoRun \in RunRecord /\ NoRun.pc \in 0 .. 1
    BY NoRunType
  <2> HIDE DEF b
  <2> QED
    BY <1>2, <2>1, <2>2
<1>5. CASE ReadMode(r)
  <2>1. runs[r].pc = b + 1
    BY <1>1, <1>5, Doings DEF ReadMode, Doing
  <2> DEFINE n == [runs[r] EXCEPT !.mode = modeFile, !.pc = runs[r].pc + 1]
  <2>2. runs' = [runs EXCEPT ![r] = n]
    BY <1>1, <1>5 DEF ReadMode
  <2>3. n.pc = runs[r].pc + 1 /\ n.kind = runs[r].kind
    BY <1>1 DEF RunRecord
  <2> HIDE DEF n
  <2>4. runs'[r] = n /\ \A q \in Run \ {r} : runs'[q] = runs[q]
    BY <1>1, <2>2
  <2>5. ~(n.pc > b + 13) /\ ~(n.pc > b + 15)
    BY <1>1, <2>1, <2>3
  <2>6. \A k \in {13, 15} : ~Past(r, k)'
    BY <2>3, <2>4, <2>5 DEF Past
  <2> QED
    BY <2>4, <2>6 DEF Past, Elsewhere
<1>6. CASE \/ LockSettings(r) \/ RestartSquid(r) \/ CheckRules(r) \/ RecordVerified(r)
           \/ FinishBoot(r)
  <2>1. ~Idle(r) /\ Done(r)
    BY <1>6 DEF LockSettings, RestartSquid, CheckRules, RecordVerified, FinishBoot, Doing
  <2>2. \/ runs[r].pc = b \/ runs[r].pc = b + 2
        \/ runs[r].pc = b + 24 + Gate + Opens(runs[r].mode)
        \/ runs[r].pc = b + 25 + Gate + Opens(runs[r].mode)
        \/ b = 1 /\ runs[r].pc = 27 + Gate + Opens(runs[r].mode)
    BY <1>6, <2>1, Doings
       DEF LockSettings, RestartSquid, CheckRules, RecordVerified, FinishBoot
  <2>3. \A q \in Run, k \in 0 .. 20 :
          Past(q, k)' => \/ Past(q, k)
                         \/ q = r /\ runs[r].pc = Locks(runs[r].kind) + k
    BY <2>1, Moves
  <2> HIDE DEF b
  <2>4. runs[r].pc # b + 13 /\ runs[r].pc # b + 15
    BY <1>1, <2>2
  <2>5. \A k \in {13, 15} : k \in 0 .. 20 /\ runs[r].pc # Locks(runs[r].kind) + k
    BY <2>4 DEF b
  <2> QED
    BY <2>3, <2>5 DEF Elsewhere
<1> QED
  BY <1>3, <1>4, <1>5, <1>6

LEMMA Beside ==
  ASSUME Shielded, Elsewhere, UNCHANGED <<chain, flows, inside>>
  PROVE  Shielded'
<1>1. chain' = chain /\ flows' = flows /\ ungated' = ungated
  BY DEF inside
<1>2. \A rule, i : (Held(rule)' <=> Held(rule)) /\ (Before(rule, i)' <=> Before(rule, i))
  BY <1>1 DEF Held, Before
<1>3. Behind' /\ NoHostServices'
  BY <1>1, <1>2 DEF Shielded, Behind, NoHostServices
<1> QED
  BY <1>2, <1>3 DEF Shielded, Elsewhere

(* What the tables refuse once mode=open's ACCEPT is behind the shields.   *)
LEMMA ShieldRefuses ==
  ASSUME FirewallInv, Behind, agent, ~ungated, NEW p \in Tracked, p \notin flows,
         p = "udp" \/ (p = "gateway" /\ HasGateway)
  PROVE  ~Accepted(p)
<1> DEFINE rules == chain["iptables"].rules
<1>1. /\ TableOf(p) = "iptables" /\ "iptables" \in Tables
      /\ p \in GuardRule("iptables").match /\ GuardRule("iptables").verdict = "REJECT"
  BY DEF TableOf, Tables, GuardRule, Rule, Agent6, Agent4
<1>2. ASSUME NEW i \in DOMAIN rules, Hits(rules[i], p), rules[i].verdict = "ACCEPT",
             \A j \in 1 .. i - 1 : ~Hits(rules[j], p)
      PROVE  FALSE
  <2>1. ~Tame(rules[i])
    BY <1>2 DEF Hits, Tame
  <2>2. Before(UdpDrop, i) /\ (HasGateway => Before(GatewayReject, i))
    BY <2>1 DEF Behind
  <2>3. PICK rule \in {UdpDrop, GatewayReject} : Before(rule, i) /\ p \in rule.match
    BY <2>2 DEF UdpDrop, GatewayReject, Rule
  <2>4. PICK j \in 1 .. i - 1 : rules[j] = rule
    BY <2>3 DEF Before
  <2> QED
    BY <1>2, <2>3, <2>4 DEF Hits
<1>3. ASSUME chain["iptables"].policy = "ACCEPT", \A i \in DOMAIN rules : ~Hits(rules[i], p)
      PROVE  FALSE
  <2>1. guard = "active"
    BY <1>1, <1>3 DEF FirewallInv, Admitted
  <2>2. rules = <<GuardRule("iptables")>>
    BY <1>1, <1>3, <2>1 DEF FirewallInv, PolicyFirst
  <2>3. 1 \in DOMAIN rules /\ rules[1] = GuardRule("iptables")
    BY <2>2
  <2> QED
    BY <1>1, <1>3, <2>3 DEF Hits
<1>4. Accepted(p) =>
        \/ \E i \in DOMAIN rules : /\ Hits(rules[i], p) /\ rules[i].verdict = "ACCEPT"
                                   /\ \A j \in 1 .. i - 1 : ~Hits(rules[j], p)
        \/ chain["iptables"].policy = "ACCEPT" /\ \A i \in DOMAIN rules : ~Hits(rules[i], p)
  BY <1>1 DEF Accepted
<1> QED
  BY <1>2, <1>3, <1>4

LEMMA ShieldedConnect ==
  ASSUME FirewallInv, Shielded, NEW p \in Tracked, Connect(p) PROVE Shielded'
<1>1. /\ chain' = chain /\ runs' = runs /\ ungated' = ungated
      /\ flows' = flows \union {p} /\ agent /\ p \notin flows /\ Accepted(p)
  BY DEF Connect, inside
<1>2. \A rule, i : (Held(rule)' <=> Held(rule)) /\ (Before(rule, i)' <=> Before(rule, i))
  BY <1>1 DEF Held, Before
<1>3. \A q \in Run, k \in {13, 15} : Past(q, k)' <=> Past(q, k)
  BY <1>1 DEF Past
<1>4. Behind'
  BY <1>1, <1>2 DEF Shielded, Behind
<1>5. ~ungated => p # "udp" /\ (HasGateway => p # "gateway")
  BY <1>1, ShieldRefuses DEF Shielded
<1>6. ~ungated => p # "gateway6"
  <2> SUFFICES ASSUME ~ungated, p = "gateway6" PROVE FALSE
    OBVIOUS
  <2>1. TableOf(p) = "ip6tables"
    BY DEF TableOf, Agent6
  <2>2. \A i \in DOMAIN chain["ip6tables"].rules : Tame(chain["ip6tables"].rules[i])
    BY DEF FirewallInv, Filtered
  <2> QED
    BY <1>1, <2>1, <2>2, TameRefuses
<1>7. NoHostServices'
  BY <1>1, <1>5, <1>6 DEF Shielded, NoHostServices
<1> QED
  BY <1>2, <1>3, <1>4, <1>7 DEF Shielded

LEMMA ShieldedPower ==
  ASSUME FirewallInv, Shielded,
         \/ Boot \/ PowerOff \/ AgentStarts \/ SquidCrashes \/ DieUntrapped \/ UNCHANGED vars
  PROVE  Shielded'
<1>1. CASE SquidCrashes \/ DieUntrapped \/ UNCHANGED vars
  <2>1. runs' = runs /\ UNCHANGED <<chain, flows, inside>>
    BY <1>1 DEF SquidCrashes, DieUntrapped, vars
  <2>2. Elsewhere
    BY <2>1 DEF Elsewhere, Past
  <2> QED
    BY <2>1, <2>2, Beside
<1>2. CASE AgentStarts
  <2>1. runs' = runs /\ chain' = chain /\ flows' = flows /\ flows = {}
    BY <1>2 DEF AgentStarts, FirewallInv, Admitted
  <2>2. \A rule, i : (Held(rule)' <=> Held(rule)) /\ (Before(rule, i)' <=> Before(rule, i))
    BY <2>1 DEF Held, Before
  <2>3. \A q \in Run, k \in {13, 15} : Past(q, k)' <=> Past(q, k)
    BY <2>1 DEF Past
  <2>4. Behind' /\ NoHostServices'
    BY <2>1, <2>2 DEF Shielded, Behind, NoHostServices
  <2> QED
    BY <2>2, <2>3, <2>4 DEF Shielded
<1>3. CASE Boot \/ PowerOff
  <2>1. /\ flows' = {}
        /\ \A q \in Run : runs'[q].pc = 0
        /\ chain' = EmptyChain \/ chain' = GuardedChain
    <3>1. CASE Boot
      BY <3>1 DEF Boot, FirewallInv, Off, Admitted, Idle
    <3>2. CASE PowerOff
      BY <3>2, NoRunType DEF PowerOff
    <3> QED
      BY <1>3, <3>1, <3>2
  <2>2. \A q \in Run, k \in {13, 15} : ~Past(q, k)'
    BY <2>1, Offsets DEF Past
  <2>3. \A i \in DOMAIN chain'["iptables"].rules : Tame(chain'["iptables"].rules[i])
    <3>1. "iptables" \in Tables
      BY DEF Tables
    <3>2. CASE chain' = GuardedChain
      <4>1. chain'["iptables"].rules = <<GuardRule("iptables")>>
        BY <3>1, <3>2 DEF GuardedChain
      <4>2. /\ DOMAIN chain'["iptables"].rules = {1}
            /\ chain'["iptables"].rules[1] = GuardRule("iptables")
        BY <4>1
      <4> QED
        BY <3>1, <4>2, TameRules
    <3>3. CASE chain' = EmptyChain
      BY <3>1, <3>3 DEF EmptyChain
    <3> QED
      BY <2>1, <3>2, <3>3
  <2> QED
    BY <2>1, <2>2, <2>3 DEF Shielded, Behind, NoHostServices
<1> QED
  BY <1>1, <1>2, <1>3

(* With no other run under way nothing flushes what a run has added.       *)
LEMMA ShieldedIptables ==
  ASSUME NEW r, Run = {r}, FirewallInv, Shielded, Iptables(r)
  PROVE  Shielded'
<1> DEFINE b == Locks(runs[r].kind)
           rules == chain["iptables"].rules
           after == chain'["iptables"].rules
<1>0. TypeOK /\ chain \in Chains /\ r \in Run
  BY DEF FirewallInv
<1>a. ~Idle(r) /\ Done(r)
  BY DEF Iptables, Doing
<1>1. /\ b \in 0 .. 1 /\ Gate \in 0 .. 1 /\ runs[r].pc \in Nat
      /\ "iptables" \in Tables /\ "ip6tables" \in Tables
      /\ HasGateway => Gate = 1
  BY <1>0, Runs DEF Tables, Gate
<1>2. rules \in Seq(RuleSet)
  BY <1>0, <1>1 DEF Chains
<1>3. /\ flows' = flows /\ ungated' = ungated
  BY DEF Iptables, inside
<1>4. \A k \in 0 .. 20 : Past(r, k)' => Past(r, k) \/ runs[r].pc = b + k
  BY <1>0, <1>a, Moves
<1>5. /\ runs[r].pc = b + 13 => Command(r) = Add("iptables", UdpDrop)
      /\ runs[r].pc = b + 15 /\ HasGateway => Command(r) = Add("iptables", GatewayReject)
  BY <1>0, <1>a, ShieldPlaces
<1>6. PICK t \in Tables :
        /\ \A u \in Tables \ {t} : chain'[u] = chain[u]
        /\ Drops(r, t) \/ Flushes(r, t) \/ \E rule \in RuleSet : Appends(r, t, rule)
  BY <1>0, IptablesDoes
<1>7. /\ Past(r, 13)' => Past(r, 13) \/ runs[r].pc = b + 13
      /\ Past(r, 15)' => Past(r, 15) \/ runs[r].pc = b + 15
      /\ Past(r, 13) <=> runs[r].pc > b + 13
      /\ Past(r, 15) <=> runs[r].pc > b + 15
  BY <1>4 DEF Past
<1>8. /\ Past(r, 13) => Held(UdpDrop)
      /\ Past(r, 15) /\ HasGateway => Held(GatewayReject)
      /\ Behind
      /\ NoHostServices
  BY <1>0 DEF Shielded
<1>9. NoHostServices'
  BY <1>3, <1>8 DEF NoHostServices
<1> HIDE DEF b
<1>10. CASE /\ after = rules /\ runs[r].pc # b + 13
            /\ HasGateway => runs[r].pc # b + 15
  <2>1. \A rule, i : (Held(rule)' <=> Held(rule)) /\ (Before(rule, i)' <=> Before(rule, i))
    BY <1>10 DEF Held, Before
  <2>2. Behind'
    BY <1>8, <1>10, <2>1 DEF Behind
  <2>3. /\ Past(r, 13)' => Past(r, 13)
        /\ Past(r, 15)' /\ HasGateway => Past(r, 15)
    BY <1>7, <1>10
  <2>4. \A q \in Run : q = r
    OBVIOUS
  <2> QED
    BY <1>8, <1>9, <2>1, <2>2, <2>3, <2>4 DEF Shielded
<1>11. CASE t = "iptables" /\ Flushes(r, t)
  <2>1. after = <<>> /\ runs[r].pc = b + 4
    BY <1>11 DEF Flushes, b
  <2>2. ~Past(r, 13)' /\ ~Past(r, 15)'
    BY <1>1, <1>7, <2>1
  <2>3. Behind'
    BY <2>1 DEF Behind
  <2> QED
    BY <1>9, <2>2, <2>3 DEF Shielded
<1>12. CASE t = "iptables" /\ \E rule \in RuleSet : Appends(r, t, rule)
  <2>1. PICK rule \in RuleSet : Appends(r, "iptables", rule)
    BY <1>12
  <2>2. /\ after = Append(rules, rule) /\ Command(r) = Add("iptables", rule)
        /\ \/ Tame(rule)
           \/ rule = OpenAccept /\ runs[r].pc = b + 15 + Gate
    BY <2>1 DEF Appends, b
  <2>3. /\ DOMAIN rules = 1 .. Len(rules) /\ Len(rules) \in Nat
        /\ DOMAIN after = 1 .. Len(rules) + 1
        /\ \A i \in 1 .. Len(rules) : after[i] = rules[i]
        /\ after[Len(rules) + 1] = rule
        /\ \A i \in 1 .. Len(rules) + 1 : i \in 1 .. Len(rules) \/ i = Len(rules) + 1
    BY <1>2, <2>2, Appended
  <2>4. \A other : Command(r) = Add("iptables", other) => other = rule
    BY <2>2 DEF Add
  <2>5. /\ runs[r].pc = b + 13 => rule = UdpDrop
        /\ runs[r].pc = b + 15 /\ HasGateway => rule = GatewayReject
    BY <1>5, <2>4
  <2> HIDE DEF rules, after
  <2>6. \A other : Held(other) => Held(other)'
    <3> SUFFICES ASSUME NEW other, Held(other) PROVE Held(other)'
      OBVIOUS
    <3>1. PICK i \in 1 .. Len(rules) : rules[i] = other
      BY <2>3 DEF Held, rules
    <3>2. i \in 1 .. Len(rules) + 1 /\ after[i] = other
      BY <2>3, <3>1
    <3> QED
      BY <2>3, <3>2 DEF Held, after
  <2>7. Held(rule)'
    <3>1. Len(rules) + 1 \in 1 .. Len(rules) + 1
      BY <2>3
    <3> QED
      BY <2>3, <3>1 DEF Held, after
  <2>8. /\ Past(r, 13)' => Held(UdpDrop)'
        /\ Past(r, 15)' /\ HasGateway => Held(GatewayReject)'
    BY <1>7, <1>8, <2>5, <2>6, <2>7
  <2>9. \A other : \A i \in 1 .. Len(rules) : Before(other, i) => Before(other, i)'
    <3> SUFFICES ASSUME NEW other, NEW i \in 1 .. Len(rules), Before(other, i)
                 PROVE  Before(other, i)'
      OBVIOUS
    <3>1. PICK j \in 1 .. i - 1 : rules[j] = other
      BY DEF Before, rules
    <3>2. j \in 1 .. Len(rules)
      BY <2>3
    <3>3. after[j] = other
      BY <2>3, <3>1, <3>2
    <3> QED
      BY <3>3 DEF Before, after
  <2>10. \A other, i : Held(other) /\ i = Len(rules) + 1 => Before(other, i)'
    <3> SUFFICES ASSUME NEW other, NEW i, Held(other), i = Len(rules) + 1
                 PROVE  Before(other, i)'
      OBVIOUS
    <3>1. PICK j \in 1 .. Len(rules) : rules[j] = other
      BY <2>3 DEF Held, rules
    <3>2. j \in 1 .. i - 1 /\ after[j] = other
      BY <2>3, <3>1
    <3> QED
      BY <3>2 DEF Before, after
  <2>11. rule = OpenAccept /\ ~Tame(rule) =>
           Held(UdpDrop) /\ (HasGateway => Held(GatewayReject))
    <3> SUFFICES ASSUME runs[r].pc = b + 15 + Gate
                 PROVE  Held(UdpDrop) /\ (HasGateway => Held(GatewayReject))
      BY <2>2
    <3>1. runs[r].pc > b + 13 /\ (HasGateway => runs[r].pc > b + 15)
      BY <1>1
    <3> QED
      BY <1>7, <1>8, <3>1
  <2>12. ASSUME NEW i \in 1 .. Len(rules) + 1
         PROVE  \/ Tame(after[i])
                \/ Before(UdpDrop, i)' /\ (HasGateway => Before(GatewayReject, i)')
    <3>1. CASE i \in 1 .. Len(rules)
      <4>1. Tame(rules[i]) \/ (Before(UdpDrop, i) /\ (HasGateway => Before(GatewayReject, i)))
        BY <1>8, <2>3, <3>1 DEF Behind, rules
      <4>2. Before(UdpDrop, i) => Before(UdpDrop, i)'
        BY <2>9, <3>1
      <4>3. Before(GatewayReject, i) => Before(GatewayReject, i)'
        BY <2>9, <3>1
      <4>4. after[i] = rules[i]
        BY <2>3, <3>1
      <4> QED
        BY <4>1, <4>2, <4>3, <4>4
    <3>2. CASE i = Len(rules) + 1
      BY <2>2, <2>3, <2>10, <2>11, <3>2
    <3> QED
      BY <2>3, <3>1, <3>2
  <2>13. Behind'
    BY <2>3, <2>12 DEF Behind, after
  <2> QED
    BY <1>9, <2>8, <2>13 DEF Shielded
<1>13. CASE t = "ip6tables" \/ Drops(r, t)
  <2>1. after = rules
    BY <1>1, <1>6, <1>13 DEF Drops
  <2>2. runs[r].pc # b + 13 /\ (HasGateway => runs[r].pc # b + 15)
    <3>1. CASE Drops(r, t) \/ (t = "ip6tables" /\ Flushes(r, t))
      <4>1. runs[r].pc \in {b + 3, b + 7, b + 8}
        BY <1>1, <3>1 DEF Drops, Flushes, b
      <4> QED
        BY <1>1, <4>1
    <3>2. CASE t = "ip6tables" /\ \E rule \in RuleSet : Appends(r, t, rule)
      <4>1. Command(r).table = "ip6tables"
        BY <3>2 DEF Appends, Add
      <4>2. \A rule : Command(r) # Add("iptables", rule)
        BY <4>1 DEF Add
      <4> QED
        BY <1>5, <4>2
    <3> QED
      BY <1>6, <1>13, <3>1, <3>2
  <2> QED
    BY <1>10, <2>1, <2>2
<1> QED
  BY <1>6, <1>11, <1>12, <1>13 DEF Tables

LEMMA ShieldedStep ==
  ASSUME NEW r, Run = {r}, FirewallInv, Shielded, [Next]_vars PROVE Shielded'
<1>0. TypeOK /\ r \in Run
  BY DEF FirewallInv
<1>1. CASE \/ UNCHANGED vars \/ Boot \/ PowerOff \/ AgentStarts \/ SquidCrashes
           \/ DieUntrapped
  BY <1>1, ShieldedPower
<1>2. CASE \E p \in Tracked : Connect(p)
  BY <1>2, ShieldedConnect
<1>3. CASE Iptables(r)
  BY <1>3, ShieldedIptables
<1>4. CASE \/ (\E m \in Modes : SwitchMode(r, m)) \/ SandboxBoot(r) \/ StepFails(r)
           \/ LockSettings(r) \/ ReadMode(r) \/ RestartSquid(r) \/ CheckRules(r)
           \/ CheckFails(r) \/ RecordVerified(r) \/ FinishBoot(r)
  <2>1. Elsewhere
    BY <1>0, <1>4, Passes
  <2>2. UNCHANGED <<chain, flows, inside>>
    BY <1>4 DEF SwitchMode, SandboxBoot, StepFails, LockSettings, ReadMode, RestartSquid,
                CheckRules, CheckFails, RecordVerified, FinishBoot, EndInFailure
  <2> QED
    BY <2>1, <2>2, Beside
<1> QED
  BY <1>1, <1>2, <1>3, <1>4 DEF Next, ScriptStep

(* As long as runs of the script do not overlap, no command of any of them, *)
(* on any boot, lets the agent connect to the host or to a foreign resolver *)
(* - which the ESTABLISHED rule would keep alive.  Overlapping runs can:    *)
(* one flushes the REJECT the other has already put before its ACCEPT.      *)
THEOREM HostKeptAway ==
  ASSUME NEW r, Run = {r}
  PROVE  Spec => []NoHostServices
<1>1. Init => Shielded
  <2> SUFFICES ASSUME Init PROVE Shielded
    OBVIOUS
  <2>1. flows = {} /\ chain["iptables"].rules = <<>> /\ \A q \in Run : runs[q] = NoRun
    BY DEF Init, EmptyChain, Tables
  <2>2. \A q \in Run, k \in {13, 15} : ~Past(q, k)
    BY <2>1, NoRunType, Offsets DEF Past
  <2> QED
    BY <2>1, <2>2 DEF Shielded, Behind, NoHostServices
<1>2. FirewallInv /\ Shielded /\ [Next]_vars => Shielded'
  BY ShieldedStep
<1>3. Shielded => NoHostServices
  BY DEF Shielded
<1> QED
  BY <1>1, <1>2, <1>3, Invariance, PTL DEF Spec

-----------------------------------------------------------------------------
(* What the rules of a mode mean, packet by packet                         *)

\* The place in the ruleset of the flush of a packet's table, and of the rule
\* that decides about the packet.
FlushAt(p) == IF TableOf(p) = "iptables" THEN 2 ELSE 6
DecidedAt(mode, p) ==
  CASE p = "lo" -> 3
    [] p = "lo6" -> 7
    [] p \in {"ndp", "dns6"} -> 9
    [] p = "dns" -> 10
    [] p = "udp" -> 11
    [] p = "guest" -> 12
    [] p = "gateway" -> IF HasGateway \/ mode = "open" THEN 13 ELSE 20
    [] p = "web" -> IF mode = "open" THEN 13 + Gate ELSE 20 + Gate
    [] p = "api" -> 13 + Gate
    [] p = "root" -> 14 + Gate + Opens(mode)
    [] p = "apt" -> 15 + Gate + Opens(mode)
    [] p = "proxy" -> 16 + Gate + Opens(mode)
    [] p = "mapped" -> 20 + Gate + Opens(mode)
    [] p = "gateway6" -> 21 + Gate + Opens(mode)

\* The command at place i decides about the packet, or leaves it alone.
Decides(c, i, mode, p) ==
  /\ i = FlushAt(p) => c.op = "flush"
  /\ \A rule \in RuleSet : c = Add(TableOf(p), rule) =>
       /\ i <= DecidedAt(mode, p) => (p \in rule.match <=> DecidedAt(mode, p) = i)
       /\ DecidedAt(mode, p) = i => (rule.verdict = "ACCEPT" <=> p \in Intended(mode))
  /\ (\A rule \in RuleSet : c # Add(TableOf(p), rule)) => DecidedAt(mode, p) # i

LEMMA Packets ==
  ASSUME NEW mode \in Modes, NEW p \in Packet
  PROVE  /\ TableOf(p) \in Tables /\ FlushAt(p) \in {2, 6}
         /\ DecidedAt(mode, p) \in Nat /\ DecidedAt(mode, p) > FlushAt(p)
         /\ DecidedAt(mode, p) <= 21 + Gate + Opens(mode)
<1>1. /\ Gate \in 0 .. 1 /\ Opens(mode) \in 0 .. 1 /\ (HasGateway <=> Gate = 1)
      /\ (mode = "open" <=> Opens(mode) = 1)
  BY DEF Gate, Opens
<1> QED
  BY <1>1 DEF FlushAt, TableOf, Tables, DecidedAt, Packet, Agent4, Others4, Agent6

\* What it takes of a rule at place i, in table t.
Suits(rule, t, i, mode, p) ==
  /\ t = TableOf(p) =>
       /\ i <= DecidedAt(mode, p) => (p \in rule.match <=> DecidedAt(mode, p) = i)
       /\ DecidedAt(mode, p) = i => (rule.verdict = "ACCEPT" <=> p \in Intended(mode))
  /\ t # TableOf(p) => DecidedAt(mode, p) # i

LEMMA Added ==
  ASSUME NEW mode \in Modes, NEW p \in Packet, NEW i \in Nat, NEW t \in Tables,
         NEW rule \in RuleSet, i \notin {2, 6}, Suits(rule, t, i, mode, p)
  PROVE  Decides(Add(t, rule), i, mode, p)
<1>1. FlushAt(p) \in {2, 6} /\ TableOf(p) \in Tables
  BY Packets
<1>2. \A other \in RuleSet : Add(t, rule) = Add(TableOf(p), other) => t = TableOf(p) /\ other = rule
  BY DEF Add
<1>3. (\A other \in RuleSet : Add(t, rule) # Add(TableOf(p), other)) => t # TableOf(p)
  OBVIOUS
<1> QED
  BY <1>1, <1>2, <1>3 DEF Decides, Suits

(* The rule at every place of the ruleset suits every packet.              *)
LEMMA AllSuit ==
  ASSUME NEW mode \in Modes, NEW p \in Packet, NEW i \in 1 .. 21 + Gate + Opens(mode)
  PROVE  /\ i = 3 => Suits(Lo("iptables"), "iptables", i, mode, p)
         /\ i = 4 => Suits(Established, "iptables", i, mode, p)
         /\ i = 7 => Suits(Lo("ip6tables"), "ip6tables", i, mode, p)
         /\ i = 8 => Suits(Established, "ip6tables", i, mode, p)
         /\ i = 9 => Suits(NdpDns6, "ip6tables", i, mode, p)
         /\ i = 10 => Suits(Dns, "iptables", i, mode, p)
         /\ i = 11 => Suits(UdpDrop, "iptables", i, mode, p)
         /\ i = 12 => Suits(AgentToSquid, "iptables", i, mode, p)
         /\ Gate = 1 /\ i = 13 => Suits(GatewayReject, "iptables", i, mode, p)
         /\ Opens(mode) = 1 /\ i = 13 + Gate => Suits(OpenAccept, "iptables", i, mode, p)
         /\ i = 13 + Gate + Opens(mode) => Suits(AnthropicCidr, "iptables", i, mode, p)
         /\ i = 14 + Gate + Opens(mode) => Suits(RootAccept("iptables"), "iptables", i, mode, p)
         /\ i = 15 + Gate + Opens(mode) => Suits(AptAccept("iptables"), "iptables", i, mode, p)
         /\ i = 16 + Gate + Opens(mode) => Suits(ProxyAccept("iptables"), "iptables", i, mode, p)
         /\ i = 17 + Gate + Opens(mode) => Suits(RootAccept("ip6tables"), "ip6tables", i, mode, p)
         /\ i = 18 + Gate + Opens(mode) => Suits(AptAccept("ip6tables"), "ip6tables", i, mode, p)
         /\ i = 19 + Gate + Opens(mode) => Suits(ProxyAccept("ip6tables"), "ip6tables", i, mode, p)
         /\ i = 20 + Gate + Opens(mode) => Suits(RejectAll, "iptables", i, mode, p)
         /\ i = 21 + Gate + Opens(mode) => Suits(RejectAll, "ip6tables", i, mode, p)
<1>a. /\ Gate \in 0 .. 1 /\ Opens(mode) \in 0 .. 1 /\ (HasGateway <=> Gate = 1)
      /\ (mode = "open" <=> Opens(mode) = 1)
  BY DEF Gate, Opens
<1> USE <1>a DEF Suits, DecidedAt, TableOf, Intended, Rule, Packet, Agent4, Others4, Agent6,
                 Modes
<1>1. i = 3 => Suits(Lo("iptables"), "iptables", i, mode, p)
  BY DEF Lo
<1>2. i = 4 => Suits(Established, "iptables", i, mode, p)
  BY DEF Established
<1>3. i = 7 => Suits(Lo("ip6tables"), "ip6tables", i, mode, p)
  BY DEF Lo
<1>4. i = 8 => Suits(Established, "ip6tables", i, mode, p)
  BY DEF Established
<1>5. i = 9 => Suits(NdpDns6, "ip6tables", i, mode, p)
  BY DEF NdpDns6
<1>6. i = 10 => Suits(Dns, "iptables", i, mode, p)
  BY DEF Dns
<1>7. i = 11 => Suits(UdpDrop, "iptables", i, mode, p)
  BY DEF UdpDrop
<1>8. i = 12 => Suits(AgentToSquid, "iptables", i, mode, p)
  BY DEF AgentToSquid
<1>9. Gate = 1 /\ i = 13 => Suits(GatewayReject, "iptables", i, mode, p)
  BY DEF GatewayReject
<1>10. Opens(mode) = 1 /\ i = 13 + Gate => Suits(OpenAccept, "iptables", i, mode, p)
  BY DEF OpenAccept
<1>11. i = 13 + Gate + Opens(mode) => Suits(AnthropicCidr, "iptables", i, mode, p)
  BY DEF AnthropicCidr
<1>12. i = 14 + Gate + Opens(mode) => Suits(RootAccept("iptables"), "iptables", i, mode, p)
  BY DEF RootAccept
<1>13. i = 15 + Gate + Opens(mode) => Suits(AptAccept("iptables"), "iptables", i, mode, p)
  BY DEF AptAccept
<1>14. i = 16 + Gate + Opens(mode) => Suits(ProxyAccept("iptables"), "iptables", i, mode, p)
  BY DEF ProxyAccept
<1>15. i = 17 + Gate + Opens(mode) => Suits(RootAccept("ip6tables"), "ip6tables", i, mode, p)
  BY DEF RootAccept
<1>16. i = 18 + Gate + Opens(mode) => Suits(AptAccept("ip6tables"), "ip6tables", i, mode, p)
  BY DEF AptAccept
<1>17. i = 19 + Gate + Opens(mode) => Suits(ProxyAccept("ip6tables"), "ip6tables", i, mode, p)
  BY DEF ProxyAccept
<1>18. i = 20 + Gate + Opens(mode) => Suits(RejectAll, "iptables", i, mode, p)
  BY DEF RejectAll
<1>19. i = 21 + Gate + Opens(mode) => Suits(RejectAll, "ip6tables", i, mode, p)
  BY DEF RejectAll
<1> HIDE DEF Suits, DecidedAt, TableOf, Intended, Rule, Packet, Modes
<1> QED
  BY <1>1, <1>2, <1>3, <1>4, <1>5, <1>6, <1>7, <1>8, <1>9, <1>10,
     <1>11, <1>12, <1>13, <1>14, <1>15, <1>16, <1>17, <1>18, <1>19

LEMMA RulesetDecides ==
  ASSUME NEW mode \in Modes, NEW p \in Packet, NEW i \in 1 .. 21 + Gate + Opens(mode)
  PROVE  Decides(Ruleset(mode)[i], i, mode, p)
<1> DEFINE g == Gate  o == Opens(mode)  R == Ruleset(mode)
<1>a. g \in 0 .. 1 /\ o \in 0 .. 1
  BY Offsets
<1>b. g = Gate /\ o = Opens(mode)
  OBVIOUS
<1>c. "iptables" \in Tables /\ "ip6tables" \in Tables /\ i \in Nat
  BY <1>a DEF Tables
<1> USE <1>a
<1> HIDE DEF g, o
<1>0. \/ i \in {1, 5} \/ i \in {2, 6} \/ i \in {3, 4} \/ i \in {7, 8} \/ i \in {9, 10, 11, 12}
      \/ g = 1 /\ i = 13
      \/ o = 1 /\ i = 13 + g
      \/ i \in {13 + g + o, 14 + g + o, 15 + g + o, 16 + g + o}
      \/ i \in {17 + g + o, 18 + g + o, 19 + g + o} \/ i \in {20 + g + o, 21 + g + o}
  <2>1. i \in 1 .. 21 + g + o
    BY <1>b
  <2>2. g = 0 \/ g = 1
    OBVIOUS
  <2>3. o = 0 \/ o = 1
    OBVIOUS
  <2> QED
    BY <2>1, <2>2, <2>3
<1> DEFINE d == DecidedAt(mode, p)
<1>1. CASE i \in {1, 5}
  <2>1. R[i].op = "policy"
    BY <1>1, RulesetTable DEF DropPolicy
  <2>2. FlushAt(p) # i /\ d # i
    BY <1>1, <1>b DEF FlushAt, DecidedAt, Packet, Agent4, Others4, Agent6
  <2>3. \A rule \in RuleSet : R[i] # Add(TableOf(p), rule)
    BY <2>1 DEF Add
  <2> QED
    BY <2>2, <2>3 DEF Decides
<1>2. CASE i \in {2, 6}
  <2>1. R[i].op = "flush"
    BY <1>2, RulesetTable DEF Flush
  <2>2. d # i
    BY <1>2, <1>b DEF DecidedAt, Packet, Agent4, Others4, Agent6
  <2>3. \A rule \in RuleSet : R[i] # Add(TableOf(p), rule)
    BY <2>1 DEF Add
  <2> QED
    BY <2>1, <2>2, <2>3 DEF Decides
<1> DEFINE Fit(t, rule) == rule \in RuleSet /\ R[i] = Add(t, rule) /\ Suits(rule, t, i, mode, p)
<1>s. ASSUME NEW t \in Tables, NEW rule, Fit(t, rule), i \notin {2, 6}
      PROVE  Decides(R[i], i, mode, p)
  BY <1>c, <1>s, Added
<1>3. CASE i \in {3, 4}
  <2>1. Fit("iptables", Lo("iptables")) \/ Fit("iptables", Established)
    BY <1>3, <1>c, AllSuit, RulesetTable, RuleTypes
  <2> HIDE DEF Fit
  <2> QED
    BY <1>3, <1>c, <1>s, <2>1
<1>4. CASE i \in {7, 8}
  <2>1. Fit("ip6tables", Lo("ip6tables")) \/ Fit("ip6tables", Established)
    BY <1>4, <1>c, AllSuit, RulesetTable, RuleTypes
  <2> HIDE DEF Fit
  <2> QED
    BY <1>4, <1>c, <1>s, <2>1
<1>5. CASE i \in {9, 10, 11, 12}
  <2>1. \/ Fit("ip6tables", NdpDns6) \/ Fit("iptables", Dns)
        \/ Fit("iptables", UdpDrop) \/ Fit("iptables", AgentToSquid)
    BY <1>5, <1>c, AllSuit, RulesetTable, RuleTypes
  <2> HIDE DEF Fit
  <2> QED
    BY <1>5, <1>c, <1>s, <2>1
<1>6. CASE g = 1 /\ i = 13
  <2>1. Fit("iptables", GatewayReject)
    BY <1>6, <1>b, <1>c, AllSuit, RulesetTable, RuleTypes
  <2> HIDE DEF Fit
  <2> QED
    BY <1>6, <1>c, <1>s, <2>1
<1>7. CASE o = 1 /\ i = 13 + g
  <2>1. Fit("iptables", OpenAccept)
    BY <1>7, <1>b, <1>c, AllSuit, RulesetTable, RuleTypes
  <2> HIDE DEF Fit
  <2> QED
    BY <1>7, <1>c, <1>s, <2>1
<1>8. CASE i \in {13 + g + o, 14 + g + o, 15 + g + o, 16 + g + o}
  <2>1. \/ Fit("iptables", AnthropicCidr) \/ Fit("iptables", RootAccept("iptables"))
        \/ Fit("iptables", AptAccept("iptables")) \/ Fit("iptables", ProxyAccept("iptables"))
    BY <1>8, <1>b, <1>c, AllSuit, RulesetTable, RuleTypes
  <2> HIDE DEF Fit
  <2> QED
    BY <1>8, <1>c, <1>s, <2>1
<1>9. CASE i \in {17 + g + o, 18 + g + o, 19 + g + o}
  <2>1. \/ Fit("ip6tables", RootAccept("ip6tables")) \/ Fit("ip6tables", AptAccept("ip6tables"))
        \/ Fit("ip6tables", ProxyAccept("ip6tables"))
    BY <1>9, <1>b, <1>c, AllSuit, RulesetTable, RuleTypes
  <2> HIDE DEF Fit
  <2> QED
    BY <1>9, <1>c, <1>s, <2>1
<1>10. CASE i \in {20 + g + o, 21 + g + o}
  <2>1. Fit("iptables", RejectAll) \/ Fit("ip6tables", RejectAll)
    BY <1>10, <1>b, <1>c, AllSuit, RulesetTable, RuleTypes
  <2> HIDE DEF Fit
  <2> QED
    BY <1>10, <1>c, <1>s, <2>1
<1> QED
  BY <1>0, <1>1, <1>2, <1>3, <1>4, <1>5, <1>6, <1>7, <1>8, <1>9, <1>10

\* No rule of its table matches a packet, or the first one that does accepts
\* it, whatever is ESTABLISHED.
Missed(p) ==
  \A i \in DOMAIN chain[TableOf(p)].rules : p \notin chain[TableOf(p)].rules[i].match
Passed(p) ==
  \E i \in DOMAIN chain[TableOf(p)].rules :
    /\ p \in chain[TableOf(p)].rules[i].match
    /\ chain[TableOf(p)].rules[i].verdict = "ACCEPT"
    /\ \A j \in 1 .. i - 1 : p \notin chain[TableOf(p)].rules[j].match

\* Run r has added the rules up to its place, and no others.
Laying(r) ==
  \A p \in Packet : Past(r, 2 + FlushAt(p)) =>
    /\ Missed(p) <=> ~Past(r, 2 + DecidedAt(runs[r].mode, p))
    /\ Passed(p) <=> /\ Past(r, 2 + DecidedAt(runs[r].mode, p))
                     /\ p \in Intended(runs[r].mode)

Recorded(r) == Past(r, 25 + Gate + Opens(runs[r].mode)) => verify = runs[r].mode

Means(mode) ==
  /\ \A t \in Tables : chain[t].policy = "DROP"
  /\ \A p \in Packet : Passed(p) <=> p \in Intended(mode)

Meant == verify # "none" /\ ~broken /\ (\A r \in Run : Idle(r)) => Means(verify)

LaidInv ==
  /\ \A r \in Run : Laying(r) /\ Recorded(r)
  /\ Meant
  /\ boot = "off" => verify = "none"

LEMMA AddsOne ==
  ASSUME chain \in Chains, NEW p \in Packet, NEW rule \in RuleSet,
         chain'[TableOf(p)].rules = Append(chain[TableOf(p)].rules, rule)
  PROVE  /\ Missed(p)' <=> Missed(p) /\ p \notin rule.match
         /\ Passed(p)' <=> Passed(p) \/ (Missed(p) /\ p \in rule.match /\ rule.verdict = "ACCEPT")
<1> SUFFICES ASSUME NEW t \in Tables, t = TableOf(p), NEW s, s = chain[t].rules,
                    NEW a, a = chain'[t].rules
             PROVE  /\ Missed(p)' <=> Missed(p) /\ p \notin rule.match
                    /\ Passed(p)' <=> \/ Passed(p)
                                      \/ Missed(p) /\ p \in rule.match /\ rule.verdict = "ACCEPT"
  BY DEF TableOf, Tables
<1>1. s \in Seq(RuleSet) /\ a = Append(s, rule)
  BY DEF Chains
<1>2. /\ DOMAIN s = 1 .. Len(s) /\ Len(s) \in Nat /\ DOMAIN a = 1 .. Len(s) + 1
      /\ \A i \in 1 .. Len(s) : a[i] = s[i]
      /\ a[Len(s) + 1] = rule
      /\ \A i \in 1 .. Len(s) + 1 : i \in 1 .. Len(s) \/ i = Len(s) + 1
  BY <1>1, Appended
<1> DEFINE First(q, i) == \A j \in 1 .. i - 1 : p \notin q[j].match
<1>3. /\ Missed(p) <=> \A i \in DOMAIN s : p \notin s[i].match
      /\ Missed(p)' <=> \A i \in DOMAIN a : p \notin a[i].match
      /\ Passed(p) <=> \E i \in DOMAIN s :
                         p \in s[i].match /\ s[i].verdict = "ACCEPT" /\ First(s, i)
      /\ Passed(p)' <=> \E i \in DOMAIN a :
                          p \in a[i].match /\ a[i].verdict = "ACCEPT" /\ First(a, i)
  BY DEF Missed, Passed
<1>4. \A i \in 1 .. Len(s) + 1 : \A j \in 1 .. i - 1 : j \in 1 .. Len(s)
  BY <1>2
<1>5. /\ \A i \in 1 .. Len(s) : i \in 1 .. Len(s) + 1
      /\ Len(s) + 1 \in 1 .. Len(s) + 1
      /\ \A j : j \in 1 .. (Len(s) + 1) - 1 <=> j \in 1 .. Len(s)
  BY <1>2
<1>6. \A i \in 1 .. Len(s) + 1 : First(a, i) <=> First(s, i)
  BY <1>2, <1>4
<1>7. First(s, Len(s) + 1) <=> \A i \in DOMAIN s : p \notin s[i].match
  BY <1>2, <1>5
<1> HIDE DEF First
<1>8. Missed(p)' <=> Missed(p) /\ p \notin rule.match
  BY <1>2, <1>3, <1>5
<1>9. Passed(p)' <=> Passed(p) \/ (Missed(p) /\ p \in rule.match /\ rule.verdict = "ACCEPT")
  BY <1>2, <1>3, <1>5, <1>6, <1>7
<1> QED
  BY <1>8, <1>9

(* Where in the ruleset a command of iptables is.                          *)
LEMMA InRuleset ==
  ASSUME TypeOK, NEW r \in Run, Iptables(r)
  PROVE  \E i \in 1 .. 21 + Gate + Opens(runs[r].mode) :
           /\ runs[r].pc = Locks(runs[r].kind) + 2 + i
           /\ Command(r) = Ruleset(runs[r].mode)[i]
<1> DEFINE kind == runs[r].kind
           mode == runs[r].mode
           pc == runs[r].pc
           c == Command(r)
           g == Gate  o == Opens(mode)  b == Locks(kind)
<1>1. /\ kind \in {"boot", "switch"} /\ mode \in Modes
      /\ pc \in 1 .. Len(Script(kind, mode)) /\ c = Script(kind, mode)[pc]
      /\ c.op \in {"policy", "flush", "append"}
  <2>1. ~Idle(r) /\ c.op \in {"policy", "flush", "append"}
    BY DEF Iptables, Doing
  <2> HIDE DEF c
  <2> QED
    BY <2>1, Runs DEF Idle, Command, ScriptOf, c
<1>2. g \in 0 .. 1 /\ o \in 0 .. 1 /\ b \in 0 .. 1
  BY Offsets
<1> HIDE DEF kind, mode, pc, c
<1> DEFINE S == Script(kind, mode)
<1>3. /\ Len(S) = 25 + g + o + b + b
      /\ b = 1 => S[1] = Cmd("lock")
      /\ S[b + 1] = Cmd("mode") /\ S[b + 2] = Cmd("squid")
      /\ S[24 + g + o + b] = Cmd("check") /\ S[25 + g + o + b] = Cmd("record")
      /\ b = 1 => S[27 + g + o] = Cmd("finish")
      /\ \A j \in 1 .. 21 + g + o : S[b + 2 + j] = Ruleset(mode)[j]
  BY <1>1, ScriptTable
<1>4. c = S[pc] /\ pc \in 1 .. Len(S)
  BY <1>1
<1> HIDE DEF S, g, o, b
<1>5. \A op : Cmd(op).op = op
  BY DEF Cmd
<1>6. /\ pc # b + 1 /\ pc # b + 2 /\ pc # 24 + g + o + b /\ pc # 25 + g + o + b
      /\ b = 1 => pc # 1 /\ pc # 27 + g + o
  BY <1>1, <1>3, <1>4, <1>5
<1>7. pc - b - 2 \in 1 .. 21 + g + o
  <2>1. pc \in Nat /\ 1 <= pc /\ pc <= 25 + g + o + b + b
    BY <1>2, <1>3, <1>4
  <2>2. CASE b = 0
    BY <1>2, <1>6, <2>1, <2>2
  <2>3. CASE b = 1
    BY <1>2, <1>6, <2>1, <2>3
  <2> QED
    BY <1>2, <2>2, <2>3
<1> DEFINE i == pc - b - 2
<1>8. pc = b + 2 + i /\ i \in 1 .. 21 + g + o
  BY <1>2, <1>4, <1>7
<1>9. c = Ruleset(mode)[i]
  BY <1>3, <1>4, <1>8
<1> QED
  BY <1>8, <1>9 DEF kind, mode, pc, c, g, o, b

(* With no other run under way, a command of iptables adds the rule it is  *)
(* at, and nothing else touches the tables.                                *)
LEMMA IptablesLaid ==
  ASSUME NEW r, Run = {r}, FirewallInv, LaidInv, Iptables(r) PROVE LaidInv'
<1>s. SUFFICES ASSUME NEW b \in 0 .. 1, NEW m \in Modes, NEW g \in 0 .. 1, NEW o \in 0 .. 1,
                      b = Locks(runs[r].kind), m = runs[r].mode, g = Gate, o = Opens(m)
               PROVE  LaidInv'
  BY Runs, Offsets DEF FirewallInv
<1>0. TypeOK /\ chain \in Chains /\ r \in Run /\ ~Idle(r) /\ Done(r)
  BY DEF FirewallInv, Iptables, Doing
<1>1. /\ b \in 0 .. 1 /\ g \in 0 .. 1 /\ o \in 0 .. 1 /\ runs[r].pc \in Nat /\ m \in Modes
      /\ runs[r] \in RunRecord /\ Len(ScriptOf(r)) = 25 + g + o + b + b
      /\ runs \in [Run -> RunRecord]
  BY <1>0, <1>s, Runs DEF TypeOK
<1>2. PICK i \in 1 .. 21 + g + o : /\ runs[r].pc = b + 2 + i
                                   /\ Command(r) = Ruleset(m)[i]
  BY <1>0, <1>s, InRuleset
<1>i. i \in Nat /\ 1 <= i /\ i <= 21 + g + o
  BY <1>1, <1>2
<1>b. b \in Nat /\ g \in Nat /\ o \in Nat
  BY <1>1
<1> DEFINE n == [runs[r] EXCEPT !.pc = @ + 1]
<1>3. n.pc = b + 3 + i /\ n.kind = runs[r].kind /\ n.mode = m
  BY <1>1, <1>2, <1>s DEF RunRecord
<1>4. runs' = [runs EXCEPT ![r] = n]
  <2>1. runs[r].pc # Len(ScriptOf(r))
    BY <1>1, <1>2, <1>i, <1>b
  <2> QED
    BY <1>0, <1>1, <2>1 DEF Done
<1> HIDE DEF n
<1>5. runs'[r] = n
  BY <1>0, <1>1, <1>4
<1>6. \A k \in Nat : (Past(r, 2 + k) <=> k < i) /\ (Past(r, 2 + k)' <=> k <= i)
  <2>1. \A k : /\ Past(r, 2 + k) <=> b + 2 + i > b + (2 + k)
               /\ Past(r, 2 + k)' <=> b + 3 + i > b + (2 + k)
    BY <1>2, <1>3, <1>5, <1>s DEF Past
  <2>2. \A k \in Nat : /\ b + 2 + i > b + (2 + k) <=> k < i
                       /\ b + 3 + i > b + (2 + k) <=> k <= i
    BY <1>i, <1>b
  <2> QED
    BY <2>1, <2>2
<1>7. PICK t \in Tables :
        /\ \A u \in Tables \ {t} : chain'[u] = chain[u]
        /\ Drops(r, t) \/ Flushes(r, t) \/ \E rule \in RuleSet : Appends(r, t, rule)
  BY <1>0, IptablesDoes
<1>8. ASSUME NEW p \in Packet, FlushAt(p) <= i, NEW d, d = DecidedAt(m, p)
      PROVE  /\ Missed(p)' <=> ~(d <= i)
             /\ Passed(p)' <=> d <= i /\ p \in Intended(m)
  <2>1. /\ TableOf(p) \in Tables /\ FlushAt(p) \in {2, 6} /\ d \in Nat /\ d > FlushAt(p)
        /\ FlushAt(p) = IF TableOf(p) = "iptables" THEN 2 ELSE 6
    <3>1. /\ TableOf(p) \in Tables /\ FlushAt(p) \in {2, 6}
          /\ DecidedAt(m, p) \in Nat /\ DecidedAt(m, p) > FlushAt(p)
      BY <1>1, Packets
    <3>2. FlushAt(p) = IF TableOf(p) = "iptables" THEN 2 ELSE 6
      BY DEF FlushAt
    <3> QED
      BY <1>8, <3>1, <3>2
  <2>2. Decides(Command(r), i, m, p)
    <3>1. i \in 1 .. 21 + Gate + Opens(m)
      BY <1>s
    <3> QED
      BY <1>1, <1>2, <3>1, RulesetDecides
  <2>3. FlushAt(p) < i => (Missed(p) <=> ~(d < i)) /\ (Passed(p) <=> d < i /\ p \in Intended(m))
    <3>1. Laying(r)
      BY <1>0 DEF LaidInv
    <3>2. \A k \in Nat : Past(r, 2 + k) <=> k < i
      BY <1>6
    <3>3. FlushAt(p) \in Nat
      BY <2>1
    <3>4. Past(r, 2 + FlushAt(p)) <=> FlushAt(p) < i
      BY <3>2, <3>3
    <3>5. Past(r, 2 + d) <=> d < i
      BY <2>1, <3>2
    <3> QED
      BY <1>8, <1>s, <3>1, <3>4, <3>5 DEF Laying
  <2>4. CASE FlushAt(p) = i
    <3>1. Command(r).op = "flush"
      BY <2>2, <2>4 DEF Decides
    <3>2. ~Drops(r, t)
      <4>1. Drops(r, t) => i \in {1, 5}
        <5>1. Drops(r, t) => b + 2 + i = b + 3 \/ b + 2 + i = b + 7
          BY <1>2, <1>s DEF Drops
        <5> QED
          BY <1>i, <1>b, <5>1
      <4> QED
        BY <2>1, <2>4, <4>1
    <3>3. \A rule \in RuleSet : ~Appends(r, t, rule)
      BY <3>1 DEF Appends, Doing
    <3>4. Flushes(r, t)
      BY <1>7, <3>2, <3>3
    <3>5. t = TableOf(p)
      <4>1. i = IF t = "iptables" THEN 2 ELSE 6
        <5>1. b + 2 + i = b + IF t = "iptables" THEN 4 ELSE 8
          BY <1>2, <1>s, <3>4 DEF Flushes
        <5> QED
          BY <1>i, <1>b, <5>1
      <4> QED
        BY <2>1, <2>4, <4>1 DEF Tables
    <3>6. chain'[TableOf(p)].rules = <<>>
      BY <3>4, <3>5 DEF Flushes
    <3>7. Missed(p)' /\ ~Passed(p)'
      BY <3>6 DEF Missed, Passed
    <3> QED
      BY <2>1, <2>4, <3>7
  <2>5. CASE FlushAt(p) < i /\ \E rule \in RuleSet : Command(r) = Add(TableOf(p), rule)
    <3>1. PICK rule \in RuleSet : Command(r) = Add(TableOf(p), rule)
      BY <2>5
    <3>2. /\ i <= d => (p \in rule.match <=> d = i)
          /\ d = i => (rule.verdict = "ACCEPT" <=> p \in Intended(m))
      BY <1>8, <2>2, <3>1 DEF Decides
    <3>3. chain'[TableOf(p)].rules = Append(chain[TableOf(p)].rules, rule)
      <4>1. chain' = [chain EXCEPT ![TableOf(p)].rules = Append(@, rule)]
        BY <3>1 DEF Iptables, Doing, Add
      <4> QED
        BY <1>0, <2>1, <4>1 DEF Chains
    <3>4. /\ Missed(p)' <=> Missed(p) /\ p \notin rule.match
          /\ Passed(p)' <=> Passed(p) \/ (Missed(p) /\ p \in rule.match /\ rule.verdict = "ACCEPT")
      BY <1>0, <3>3, AddsOne
    <3>5. (Missed(p) <=> ~(d < i)) /\ (Passed(p) <=> d < i /\ p \in Intended(m))
      BY <2>3, <2>5
    <3>6. d < i \/ d = i \/ d > i
      BY <1>i, <2>1
    <3> QED
      BY <1>i, <2>1, <3>2, <3>4, <3>5, <3>6
  <2>6. CASE FlushAt(p) < i /\ ~\E rule \in RuleSet : Command(r) = Add(TableOf(p), rule)
    <3>1. d # i
      BY <1>8, <2>2, <2>6 DEF Decides
    <3>2. chain'[TableOf(p)].rules = chain[TableOf(p)].rules
      <4>1. CASE Drops(r, t)
        BY <1>7, <2>1, <4>1 DEF Drops
      <4>2. CASE Flushes(r, t)
        <5>1. i = IF t = "iptables" THEN 2 ELSE 6
          <6>1. b + 2 + i = b + IF t = "iptables" THEN 4 ELSE 8
            BY <1>2, <1>s, <4>2 DEF Flushes
          <6> QED
            BY <1>i, <1>b, <6>1
        <5>2. t # TableOf(p)
          BY <2>1, <2>6, <5>1
        <5> QED
          BY <1>7, <2>1, <5>2
      <4>3. CASE \E rule \in RuleSet : Appends(r, t, rule)
        <5>1. t # TableOf(p)
          BY <2>6, <4>3 DEF Appends
        <5> QED
          BY <1>7, <2>1, <5>1
      <4> QED
        BY <1>7, <4>1, <4>2, <4>3
    <3>3. (Missed(p)' <=> Missed(p)) /\ (Passed(p)' <=> Passed(p))
      BY <3>2 DEF Missed, Passed
    <3>4. (Missed(p) <=> ~(d < i)) /\ (Passed(p) <=> d < i /\ p \in Intended(m))
      BY <2>3, <2>6
    <3>5. d <= i <=> d < i
      BY <1>i, <2>1, <3>1
    <3> QED
      BY <3>3, <3>4, <3>5
  <2> QED
    BY <1>i, <1>8, <2>1, <2>4, <2>5, <2>6
<1>9. Laying(r)'
  <2> SUFFICES ASSUME NEW p \in Packet, NEW f, f = FlushAt(p), NEW d, d = DecidedAt(m, p),
                      Past(r, 2 + f)'
               PROVE  /\ Missed(p)' <=> ~Past(r, 2 + d)'
                      /\ Passed(p)' <=> Past(r, 2 + d)' /\ p \in Intended(m)
    BY <1>3, <1>5 DEF Laying
  <2>1. f \in Nat /\ d \in Nat
    BY <1>1, Packets
  <2>2. FlushAt(p) <= i /\ (Past(r, 2 + d)' <=> d <= i)
    BY <1>6, <2>1
  <2> QED
    BY <1>8, <2>2
<1>10. Recorded(r)'
  <2>1. ~(b + 3 + i > b + (25 + g + o))
    BY <1>i, <1>b
  <2>2. ~(n.pc > Locks(n.kind) + (25 + Gate + Opens(n.mode)))
    BY <1>3, <1>s, <2>1
  <2> QED
    BY <1>5, <2>2 DEF Recorded, Past
<1>11. Meant' /\ boot' = boot /\ verify' = verify
  <2>1. n.pc # 0
    BY <1>i, <1>b, <1>3
  <2> QED
    BY <1>0, <1>5, <2>1 DEF Meant, Idle, Iptables, guest
<1>12. \A q \in Run : q = r
  OBVIOUS
<1> QED
  BY <1>9, <1>10, <1>11, <1>12 DEF LaidInv

(* A run that has yet to flush the tables, or that failed.                 *)
LEMMA EarlyLaid ==
  ASSUME NEW r, Run = {r}, TypeOK',
         runs'[r].pc <= Locks(runs'[r].kind) + 3,
         runs'[r].pc = 0 => broken' \/ verify' = "none",
         boot' = "off" => verify' = "none"
  PROVE  LaidInv'
<1>1. r \in Run /\ \A q \in Run : q = r
  OBVIOUS
<1>2. /\ runs'[r] \in RunRecord /\ runs'[r].pc \in Nat /\ runs'[r].mode \in Modes
  BY <1>1 DEF TypeOK, RunRecord
<1>3. Locks(runs'[r].kind) \in 0 .. 1 /\ Gate \in 0 .. 1 /\ Opens(runs'[r].mode) \in 0 .. 1
  BY Offsets
<1>4. \A k \in Nat : k >= 3 => ~Past(r, k)'
  BY <1>2, <1>3 DEF Past
<1>5. \A p \in Packet : ~Past(r, 2 + FlushAt(p))'
  <2> SUFFICES ASSUME NEW p \in Packet, NEW f, f = FlushAt(p) PROVE ~Past(r, 2 + f)'
    OBVIOUS
  <2>1. f \in {2, 6}
    BY <1>2, Packets
  <2> QED
    BY <1>4, <2>1
<1>6. Laying(r)'
  BY <1>5 DEF Laying
<1>7. Recorded(r)'
  <2>1. ~(runs'[r].pc > Locks(runs'[r].kind) + (25 + Gate + Opens(runs'[r].mode)))
    BY <1>2, <1>3
  <2> QED
    BY <2>1 DEF Recorded, Past
<1>8. Meant'
  BY <1>1 DEF Meant, Idle
<1> QED
  BY <1>1, <1>6, <1>7, <1>8 DEF LaidInv

(* Once a run has added the last rule, the tables mean its mode.           *)
LEMMA AllLaid ==
  ASSUME FirewallInv, NEW r \in Run, Laying(r), Past(r, 23 + Gate + Opens(runs[r].mode))
  PROVE  Means(runs[r].mode)
<1>1. /\ Locks(runs[r].kind) \in 0 .. 1 /\ Gate \in 0 .. 1 /\ Opens(runs[r].mode) \in 0 .. 1
      /\ runs[r].pc \in Nat /\ runs[r].mode \in Modes
  BY Runs DEF FirewallInv
<1>2. \A k \in Nat : k <= 21 + Gate + Opens(runs[r].mode) => Past(r, 2 + k)
  BY <1>1 DEF Past
<1>3. Past(r, 3) /\ Past(r, 7)
  BY <1>1 DEF Past
<1>4. \A t \in Tables : chain[t].policy = "DROP"
  BY <1>3 DEF FirewallInv, PolicyFirst, Tables
<1>5. ASSUME NEW p \in Packet PROVE Passed(p) <=> p \in Intended(runs[r].mode)
  <2>1. /\ FlushAt(p) \in Nat /\ DecidedAt(runs[r].mode, p) \in Nat
        /\ FlushAt(p) <= 21 + Gate + Opens(runs[r].mode)
        /\ DecidedAt(runs[r].mode, p) <= 21 + Gate + Opens(runs[r].mode)
    BY <1>1, Packets
  <2>2. Past(r, 2 + FlushAt(p)) /\ Past(r, 2 + DecidedAt(runs[r].mode, p))
    BY <1>2, <2>1
  <2> QED
    BY <2>2 DEF Laying
<1> QED
  BY <1>4, <1>5 DEF Means

LEMMA LateLaid ==
  ASSUME NEW r, Run = {r}, FirewallInv, LaidInv,
         CheckRules(r) \/ RecordVerified(r) \/ FinishBoot(r)
  PROVE  LaidInv'
<1>s. SUFFICES ASSUME NEW b \in 0 .. 1, NEW m \in Modes, NEW g \in 0 .. 1, NEW o \in 0 .. 1,
                      b = Locks(runs[r].kind), m = runs[r].mode, g = Gate, o = Opens(m)
               PROVE  LaidInv'
  BY Runs, Offsets DEF FirewallInv
<1>0. /\ TypeOK /\ r \in Run /\ (\A q \in Run : q = r) /\ ~Idle(r) /\ Done(r) /\ chain' = chain
      /\ boot # "off" /\ boot' # "off"
  BY DEF FirewallInv, CheckRules, RecordVerified, FinishBoot, Doing, Off
<1>1. /\ b \in 0 .. 1 /\ g \in 0 .. 1 /\ o \in 0 .. 1 /\ runs[r].pc \in Nat /\ m \in Modes
      /\ runs[r] \in RunRecord /\ Len(ScriptOf(r)) = 25 + g + o + b + b
      /\ runs \in [Run -> RunRecord] /\ Laying(r) /\ Recorded(r)
  BY <1>0, <1>s, Runs DEF TypeOK, LaidInv
<1>2. \/ CheckRules(r) /\ runs[r].pc = b + 24 + g + o
      \/ RecordVerified(r) /\ runs[r].pc = b + 25 + g + o
      \/ FinishBoot(r) /\ b = 1 /\ runs[r].pc = b + 26 + g + o
  BY <1>0, <1>s, Doings DEF CheckRules, RecordVerified, FinishBoot
<1>3. Means(m)
  <2>1. runs[r].pc > b + (23 + g + o)
    BY <1>1, <1>2
  <2>2. Past(r, 23 + g + o)
    BY <1>s, <2>1 DEF Past
  <2> QED
    BY <1>0, <1>1, <1>s, <2>2, AllLaid
<1>4. Means(m)'
  BY <1>0, <1>3 DEF Means, Passed
<1>5. CASE runs[r].pc = Len(ScriptOf(r))
  <2>1. runs'[r] = NoRun
    BY <1>0, <1>1, <1>5 DEF Done
  <2>2. ~CheckRules(r)
    <3>1. CheckRules(r) => runs[r].pc = b + 24 + g + o
      BY <1>0, <1>s, Doings DEF CheckRules
    <3> QED
      BY <1>1, <1>5, <3>1
  <2>3. verify' = m
    <3>1. CASE RecordVerified(r)
      BY <1>s, <3>1 DEF RecordVerified
    <3>2. CASE FinishBoot(r) /\ b = 1 /\ runs[r].pc = b + 26 + g + o
      <4>1. runs[r].pc > b + (25 + g + o)
        BY <1>1, <3>2
      <4>3. Past(r, 25 + g + o)
        BY <1>s, <4>1 DEF Past
      <4>2. verify' = verify
        BY <3>2 DEF FinishBoot, guest
      <4> QED
        BY <1>1, <1>s, <4>2, <4>3 DEF Recorded
    <3> QED
      BY <1>2, <2>2, <3>1, <3>2
  <2>4. \A k \in Nat : ~Past(r, k)'
    BY <2>1, NoRunType, Offsets DEF Past
  <2>5. Recorded(r)'
    <3>1. ~(runs'[r].pc > Locks(runs'[r].kind) + (25 + Gate + Opens(runs'[r].mode)))
      BY <2>1, NoRunType, Offsets
    <3> QED
      BY <3>1 DEF Recorded, Past
  <2>6. Laying(r)'
    <3> SUFFICES ASSUME NEW p \in Packet, NEW f, f = FlushAt(p) PROVE ~Past(r, 2 + f)'
      BY DEF Laying
    <3>1. f \in Nat
      BY <1>1, Packets
    <3> QED
      BY <2>4, <3>1
  <2>7. Meant'
    BY <1>4, <2>3 DEF Meant
  <2> QED
    BY <1>0, <2>5, <2>6, <2>7 DEF LaidInv
<1>6. CASE runs[r].pc # Len(ScriptOf(r))
  <2> DEFINE n == [runs[r] EXCEPT !.pc = @ + 1]
  <2>1. n.pc = runs[r].pc + 1 /\ n.kind = runs[r].kind /\ n.mode = m
    BY <1>1, <1>s DEF RunRecord
  <2>2. runs'[r] = n
    BY <1>0, <1>1, <1>6 DEF Done
  <2> HIDE DEF n
  <2>3. Laying(r)'
    <3> SUFFICES ASSUME NEW p \in Packet, NEW d, d = DecidedAt(m, p)
                 PROVE  /\ Missed(p)' <=> ~Past(r, 2 + d)'
                        /\ Passed(p)' <=> Past(r, 2 + d)' /\ p \in Intended(m)
      BY <2>1, <2>2 DEF Laying
    <3> SUFFICES ASSUME NEW f, f = FlushAt(p)
                 PROVE  /\ Missed(p)' <=> ~Past(r, 2 + d)'
                        /\ Passed(p)' <=> Past(r, 2 + d)' /\ p \in Intended(m)
      OBVIOUS
    <3>0. f \in {2, 6} /\ d \in Nat /\ d <= 21 + Gate + Opens(m)
      BY <1>1, Packets
    <3>1. f \in 2 .. 6 /\ d \in Nat /\ d <= 21 + g + o
      BY <1>s, <3>0
    <3>5. runs[r].pc \in Nat /\ runs[r].pc >= b + 24 + g + o
      BY <1>1, <1>2
    <3>2. /\ runs[r].pc > b + (2 + f) /\ runs[r].pc > b + (2 + d)
          /\ runs[r].pc + 1 > b + (2 + d)
      <4>1. b \in Nat /\ g \in Nat /\ o \in Nat
        BY <1>1
      <4>2. \A x \in Nat : x >= b + 24 + g + o =>
              x > b + (2 + f) /\ x > b + (2 + d) /\ x + 1 > b + (2 + d)
        BY <4>1, <3>1
      <4> QED
        BY <4>2, <3>5
    <3>4. /\ runs[r].pc > Locks(runs[r].kind) + (2 + f)
          /\ runs[r].pc > Locks(runs[r].kind) + (2 + d)
          /\ runs'[r].pc > Locks(runs'[r].kind) + (2 + d)
      BY <1>s, <2>1, <2>2, <3>2
    <3>6. Past(r, 2 + f) /\ Past(r, 2 + d) /\ Past(r, 2 + d)'
      BY <3>4 DEF Past
    <3>3. Missed(p)' = Missed(p) /\ Passed(p)' = Passed(p)
      BY <1>0 DEF Missed, Passed
    <3> QED
      BY <1>1, <1>s, <3>3, <3>6 DEF Laying
  <2>4. n.pc # 0
    BY <1>1, <2>1
  <2>5. Meant'
    BY <1>0, <2>2, <2>4 DEF Meant, Idle
  <2>6. Recorded(r)'
    <3>1. CASE CheckRules(r) /\ runs[r].pc = b + 24 + g + o
      <4>1. ~(n.pc > b + (25 + g + o))
        BY <1>1, <2>1, <3>1
      <4>2. ~(n.pc > Locks(n.kind) + (25 + Gate + Opens(n.mode)))
        BY <1>s, <2>1, <4>1
      <4> QED
        BY <2>2, <4>2 DEF Recorded, Past
    <3>2. CASE RecordVerified(r)
      BY <1>s, <2>1, <2>2, <3>2 DEF RecordVerified, Recorded
    <3>3. CASE FinishBoot(r) /\ b = 1 /\ runs[r].pc = b + 26 + g + o
      BY <1>1, <1>6, <3>3
    <3> QED
      BY <1>2, <3>1, <3>2, <3>3
  <2> QED
    BY <1>0, <2>3, <2>5, <2>6 DEF LaidInv
<1> QED
  BY <1>5, <1>6

(* What is not a step of the script.                                       *)
LEMMA AwayLaid ==
  ASSUME FirewallInv, LaidInv, runs' = runs, verify' = verify, broken' = broken,
         boot' = "off" => boot = "off",
         chain' = chain \/ boot = "off"
  PROVE  LaidInv'
<1>1. \A r \in Run : \A k : Past(r, k)' <=> Past(r, k)
  BY DEF Past
<1>2. \A r \in Run : Recorded(r)'
  BY DEF LaidInv, Recorded, Past
<1>3. CASE chain' = chain
  <2>1. \A p : (Missed(p)' <=> Missed(p)) /\ (Passed(p)' <=> Passed(p))
    BY <1>3 DEF Missed, Passed
  <2>2. \A r \in Run : Laying(r)'
    BY <2>1 DEF LaidInv, Laying, Past
  <2>3. Meant'
    BY <1>3, <2>1 DEF LaidInv, Meant, Means, Idle
  <2> QED
    BY <1>2, <2>2, <2>3 DEF LaidInv
<1>4. CASE boot = "off"
  <2>1. verify' = "none" /\ \A r \in Run : runs'[r].pc = 0
    BY <1>4 DEF LaidInv, FirewallInv, Off, Idle
  <2>2. ASSUME NEW r \in Run PROVE Laying(r)'
    <3> SUFFICES ASSUME NEW p \in Packet, NEW f, f = FlushAt(p) PROVE ~Past(r, 2 + f)'
      BY DEF Laying
    <3>1. f \in {2, 6}
      BY Packets DEF Modes
    <3> QED
      BY <2>1, <3>1, Offsets DEF Past
  <2>3. Meant'
    BY <2>1 DEF Meant
  <2> QED
    BY <1>2, <2>1, <2>2, <2>3 DEF LaidInv
<1> QED
  BY <1>3, <1>4

LEMMA LaidStep ==
  ASSUME NEW r, Run = {r}, FirewallInv, LaidInv, [Next]_vars PROVE LaidInv'
<1>0. FirewallInv' /\ TypeOK /\ TypeOK' /\ r \in Run /\ runs \in [Run -> RunRecord]
  BY StepInv, StutterInv DEF FirewallInv, TypeOK
<1>1. CASE \/ UNCHANGED vars \/ Boot \/ AgentStarts \/ SquidCrashes \/ DieUntrapped
           \/ \E p \in Tracked : Connect(p)
  <2>1. /\ runs' = runs /\ verify' = verify /\ broken' = broken
        /\ boot' = "off" => boot = "off"
        /\ chain' = chain \/ boot = "off"
    BY <1>1 DEF vars, Boot, AgentStarts, SquidCrashes, DieUntrapped, Connect, guest
  <2> QED
    BY <2>1, AwayLaid
<1>2. CASE PowerOff
  <2>1. runs'[r].pc = 0 /\ verify' = "none"
    BY <1>0, <1>2, NoRunType DEF PowerOff
  <2> QED
    BY <1>0, <2>1, EarlyLaid, Offsets
<1>3. CASE (\E mode \in Modes : SwitchMode(r, mode)) \/ SandboxBoot(r)
  <2>1. runs'[r].pc = 1
    BY <1>0, <1>3 DEF SwitchMode, SandboxBoot, NoRun
  <2>2. boot # "off" /\ boot' # "off"
    BY <1>3 DEF SwitchMode, SandboxBoot
  <2>3. runs'[r].pc <= Locks(runs'[r].kind) + 3
    BY <2>1, Offsets
  <2> QED
    BY <1>0, <2>1, <2>2, <2>3, EarlyLaid
<1>4. CASE StepFails(r) \/ CheckFails(r)
  <2>1. runs'[r] = NoRun /\ broken' /\ verify' = verify /\ boot # "off" /\ boot' # "off"
    BY <1>0, <1>4 DEF StepFails, CheckFails, EndInFailure, FirewallInv, Off, Doing
  <2>2. runs'[r].pc = 0 /\ runs'[r].pc <= Locks(runs'[r].kind) + 3
    BY <2>1, NoRunType, Offsets
  <2> QED
    BY <1>0, <2>1, <2>2, EarlyLaid
<1>5. CASE LockSettings(r) \/ ReadMode(r) \/ RestartSquid(r)
  <2>1. /\ Locks(runs[r].kind) \in 0 .. 1 /\ Gate \in 0 .. 1 /\ Opens(runs[r].mode) \in 0 .. 1
        /\ runs[r].pc \in Nat /\ runs[r] \in RunRecord
        /\ Len(ScriptOf(r)) = 25 + Gate + Opens(runs[r].mode)
                              + Locks(runs[r].kind) + Locks(runs[r].kind)
    BY <1>0, Runs
  <2>2. ~Idle(r) /\ boot # "off" /\ boot' # "off"
    BY <1>0, <1>5 DEF LockSettings, ReadMode, RestartSquid, Doing, FirewallInv, Off
  <2>3. /\ runs[r].pc <= Locks(runs[r].kind) + 2
        /\ ReadMode(r) => runs[r].pc <= Locks(runs[r].kind) + 1
    BY <1>0, <1>5, <2>1, <2>2, Doings DEF LockSettings, ReadMode, RestartSquid
  <2>4. runs'[r].pc = runs[r].pc + 1 /\ runs'[r].kind = runs[r].kind
    <3>1. CASE ReadMode(r)
      <4> DEFINE n == [runs[r] EXCEPT !.mode = modeFile, !.pc = runs[r].pc + 1]
      <4>1. runs' = [runs EXCEPT ![r] = n]
        BY <1>0, <2>1, <3>1 DEF ReadMode
      <4>2. n.pc = runs[r].pc + 1 /\ n.kind = runs[r].kind
        BY <2>1 DEF RunRecord
      <4> HIDE DEF n
      <4> QED
        BY <1>0, <4>1, <4>2
    <3>2. CASE Done(r)
      <4>1. runs[r].pc # Len(ScriptOf(r))
        BY <2>1, <2>3
      <4> DEFINE n == [runs[r] EXCEPT !.pc = @ + 1]
      <4>2. runs' = [runs EXCEPT ![r] = n]
        BY <1>0, <2>1, <3>2, <4>1 DEF Done
      <4>3. n.pc = runs[r].pc + 1 /\ n.kind = runs[r].kind
        BY <2>1 DEF RunRecord
      <4> HIDE DEF n
      <4> QED
        BY <1>0, <4>2, <4>3
    <3> QED
      BY <1>5, <3>1, <3>2 DEF LockSettings, RestartSquid
  <2>5. runs'[r].pc # 0 /\ runs'[r].pc <= Locks(runs'[r].kind) + 3
    BY <2>1, <2>3, <2>4
  <2> QED
    BY <1>0, <2>2, <2>5, EarlyLaid
<1>6. CASE Iptables(r)
  BY <1>6, IptablesLaid
<1>7. CASE CheckRules(r) \/ RecordVerified(r) \/ FinishBoot(r)
  BY <1>7, LateLaid
<1> QED
  BY <1>1, <1>2, <1>3, <1>4, <1>5, <1>6, <1>7 DEF Next, ScriptStep

(* As long as runs of the script do not overlap, a verify file and no run  *)
(* that failed after it mean that the tables accept exactly the packets    *)
(* that the recorded mode promises, with and without a gateway, whatever   *)
(* boots, switches and failures came before: no rule is missing, doubled   *)
(* or out of order, and none is left over from an earlier mode.            *)
THEOREM RulesFollowMode ==
  ASSUME NEW r, Run = {r}
  PROVE  Spec => []RulesMeanMode
<1>1. Init => LaidInv
  <2> SUFFICES ASSUME Init PROVE LaidInv
    OBVIOUS
  <2>1. verify = "none" /\ \A q \in Run : runs[q] = NoRun
    BY DEF Init
  <2>2. \A q \in Run : \A k \in Nat : ~Past(q, k)
    BY <2>1, NoRunType, Offsets DEF Past
  <2>3. \A q \in Run : Recorded(q)
    <3>1. 25 + Gate + Opens(NoRun.mode) \in Nat
      BY Offsets
    <3> QED
      BY <2>1, <2>2, <3>1 DEF Recorded
  <2>4. \A q \in Run : Laying(q)
    <3>1. \A p \in Packet : 2 + FlushAt(p) \in Nat
      BY DEF FlushAt
    <3> QED
      BY <2>2, <3>1 DEF Laying
  <2> QED
    BY <2>1, <2>3, <2>4 DEF LaidInv, Meant
<1>2. FirewallInv /\ LaidInv /\ [Next]_vars => LaidInv'
  BY LaidStep
<1>3. FirewallInv /\ LaidInv => RulesMeanMode
  <2> SUFFICES ASSUME FirewallInv, LaidInv, verify # "none", ~broken, \A q \in Run : Idle(q)
               PROVE  {p \in Packet \ flows : Accepted(p)} = Intended(verify) \ flows
    BY DEF RulesMeanMode
  <2>1. Means(verify)
    BY DEF LaidInv, Meant
  <2>2. ASSUME NEW p \in Packet, p \notin flows PROVE Accepted(p) <=> Passed(p)
    <3>1. \A rule : Hits(rule, p) <=> p \in rule.match
      BY <2>2 DEF Hits
    <3>2. TableOf(p) \in Tables
      BY DEF TableOf, Tables
    <3>3. chain[TableOf(p)].policy # "ACCEPT"
      BY <2>1, <3>2 DEF Means
    <3> QED
      BY <3>1, <3>3 DEF Accepted, Passed
  <2>3. Intended(verify) \subseteq Packet
    <3>1. {"lo", "guest", "dns", "api", "root", "apt", "proxy", "lo6", "dns6", "ndp"} \subseteq Packet
      BY DEF Packet, Agent4, Others4, Agent6
    <3>2. "web" \in Packet /\ "gateway" \in Packet
      BY DEF Packet, Agent4
    <3> QED
      BY <3>1, <3>2 DEF Intended
  <2> QED
    BY <2>1, <2>2, <2>3 DEF Means
<1> QED
  BY <1>1, <1>2, <1>3, Invariance, PTL DEF Spec

=============================================================================
