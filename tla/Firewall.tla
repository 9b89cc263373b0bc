------------------------------- MODULE Firewall -------------------------------
(***************************************************************************)
(* The guest's OUTPUT chains, one iptables command at a time: the early    *)
(* guard every boot starts from, the runs of init-firewall.sh that replace *)
(* the ruleset at boot and on every mode switch, the self-check that ends  *)
(* a run, and the connections the agent opens meanwhile.  How domains      *)
(* reach Squid is in Allowlist; here Squid is a port that is down,         *)
(* filtering or loose.                                                     *)
(***************************************************************************)
EXTENDS Naturals, Sequences

CONSTANTS
  Run,           \* concurrent runs of init-firewall.sh
  HasGateway,    \* `ip route show default` names a gateway
  MaxBoots, MaxSwitches,   \* bounds on boots and on mode switches
  MaxFaults      \* bound on failing script steps and Squid crashes

ASSUME BoundsAssumption ==
  /\ HasGateway \in BOOLEAN
  /\ MaxBoots \in Nat /\ MaxSwitches \in Nat /\ MaxFaults \in Nat

VARIABLES
  boot,       \* "off", "booting", "script", the markers "done" and "failed",
              \* or "dead": sandbox-boot.sh ended without either
  guard,      \* the early guard of this boot: "none", "active" or "failed"
  chain,      \* the OUTPUT chain of iptables and of ip6tables
  flows,      \* what conntrack holds as ESTABLISHED for the agent
  agent,      \* some process of the agent runs
  ungated,    \* history: a command let it in before a boot without guard ended
  squidConf,  \* the mode squid.conf was last generated for (survives reboots)
  squid,      \* what listens on :3128: "down" or a mode
  modeFile,   \* /run/sandbox/firewall-mode, "allowlist" when absent
  verify,     \* FIREWALL_MODE in /run/firewall-verify, or "none"
  runs,       \* the runs of init-firewall.sh
  loosened,   \* history: a looser mode was asked for since this boot
  broken,     \* history: a run failed since the verify file was last written
  boots, switches, faults

inside == <<agent, ungated>>
bounds == <<boots, switches, faults>>
guest == <<squidConf, squid, modeFile, verify>>
vars == <<boot, guard, chain, flows, inside, guest, runs, loosened, broken,
          bounds>>

-----------------------------------------------------------------------------
(* Packets, rules and verdicts *)

Modes == {"allowlist", "audit", "open"}

\* New outgoing packets, named by sender and destination.  The agent's: lo
\* (Squid on loopback), guest (Squid at the guest's address, from containers),
\* gateway (host services), dns (the resolver, which may be the gateway), udp,
\* web and api (Anthropic's range); dns6: a resolver with an IPv6 address;
\* mapped: a subordinate UID of the agent.
Agent4 == {"lo", "guest", "gateway", "dns", "udp", "web", "api"}
Others4 == {"mapped", "root", "apt", "proxy"}
Agent6 == {"lo6", "gateway6", "dns6"}
Packet == Agent4 \union Others4 \union Agent6 \union {"ndp"}
Tables == {"iptables", "ip6tables"}
TableOf(p) == IF p \in Agent6 \union {"ndp"} THEN "ip6tables" ELSE "iptables"

\* Connections to these are remembered once accepted.
Tracked == {"gateway", "gateway6", "udp", "web"}

Rule(match, verdict) == [match |-> match, est |-> FALSE, verdict |-> verdict]
Established == [match |-> {}, est |-> TRUE, verdict |-> "ACCEPT"]
Hits(rule, p) == p \in rule.match \/ (rule.est /\ p \in flows)

\* First match wins; a packet no rule matches gets the policy.
Accepted(p) ==
  LET rules == chain[TableOf(p)].rules IN
  \/ \E i \in DOMAIN rules :
       /\ Hits(rules[i], p) /\ rules[i].verdict = "ACCEPT"
       /\ \A j \in 1 .. i - 1 : ~Hits(rules[j], p)
  \/ /\ chain[TableOf(p)].policy = "ACCEPT"
     /\ \A i \in DOMAIN rules : ~Hits(rules[i], p)

Lo(t) == Rule(IF t = "iptables" THEN {"lo"} ELSE {"lo6"}, "ACCEPT")
\* Adjacent ACCEPTs of the IPv6 chain in one step: Neighbour Discovery, and
\* the resolvers whose address is an IPv6 one.
NdpDns6 == Rule({"ndp", "dns6"}, "ACCEPT")
Dns == Rule({"dns"}, "ACCEPT")
UdpDrop == Rule({"udp", "dns"}, "DROP")
AgentToSquid == Rule({"guest"}, "ACCEPT")
GatewayReject == Rule({"gateway", "dns"}, "REJECT")
OpenAccept == Rule(Agent4, "ACCEPT")
AnthropicCidr == Rule({"api"}, "ACCEPT")
RootAccept(t) == Rule(IF t = "iptables" THEN {"root"} ELSE {}, "ACCEPT")
AptAccept(t) == Rule(IF t = "iptables" THEN {"apt"} ELSE {}, "ACCEPT")
ProxyAccept(t) == Rule(IF t = "iptables" THEN {"proxy"} ELSE {}, "ACCEPT")
RejectAll == Rule(Packet, "REJECT")

\* early-egress.sh: the agent's UID and its subordinate ranges, loopback too.
GuardRule(t) ==
  Rule(IF t = "iptables" THEN Agent4 \union {"mapped"} ELSE Agent6, "REJECT")

EmptyChain == [t \in Tables |-> [policy |-> "ACCEPT", rules |-> <<>>]]
GuardedChain == [t \in Tables |-> [policy |-> "ACCEPT",
                                   rules |-> <<GuardRule(t)>>]]

-----------------------------------------------------------------------------
(* init-firewall.sh as the commands it executes, in order *)

Cmd(op) == [op |-> op]
DropPolicy(t) == [op |-> "policy", table |-> t]
Flush(t) == [op |-> "flush", table |-> t]
Add(t, rule) == [op |-> "append", table |-> t, rule |-> rule]
If(condition, commands) == IF condition THEN commands ELSE <<>>

\* Mutant: the chain is flushed while its policy still accepts.
FlushFirst(t) == <<Flush(t), DropPolicy(t), Add(t, Lo(t)), Add(t, Established)>>

\* Policies first, then the flush, then loopback and established flows.
Prelude(t) == <<DropPolicy(t), Flush(t), Add(t, Lo(t)), Add(t, Established)>>
Privileged(t) == <<Add(t, RootAccept(t)), Add(t, AptAccept(t)),
                   Add(t, ProxyAccept(t))>>

\* Mutant: mode=open's ACCEPT ahead of the UDP drop and the gateway REJECT.
OpenAcceptFirst(mode) ==
  Prelude("iptables") \o Prelude("ip6tables")
  \o If(mode = "open", <<Add("iptables", OpenAccept)>>)
  \o <<Add("ip6tables", NdpDns6), Add("iptables", Dns),
       Add("iptables", UdpDrop), Add("iptables", AgentToSquid)>>
  \o If(HasGateway, <<Add("iptables", GatewayReject)>>)
  \o <<Add("iptables", AnthropicCidr)>>
  \o Privileged("iptables") \o Privileged("ip6tables")
  \o <<Add("iptables", RejectAll), Add("ip6tables", RejectAll)>>

\* Mutant: the resolver is allowed only after the gateway is rejected.
DnsAfterGateway(mode) ==
  Prelude("iptables") \o Prelude("ip6tables")
  \o <<Add("ip6tables", NdpDns6), Add("iptables", UdpDrop),
       Add("iptables", AgentToSquid)>>
  \o If(HasGateway, <<Add("iptables", GatewayReject)>>)
  \o <<Add("iptables", Dns)>>
  \o If(mode = "open", <<Add("iptables", OpenAccept)>>)
  \o <<Add("iptables", AnthropicCidr)>>
  \o Privileged("iptables") \o Privileged("ip6tables")
  \o <<Add("iptables", RejectAll), Add("ip6tables", RejectAll)>>

Ruleset(mode) ==
  Prelude("iptables") \o Prelude("ip6tables")
  \o <<Add("ip6tables", NdpDns6), Add("iptables", Dns),
       Add("iptables", UdpDrop), Add("iptables", AgentToSquid)>>
  \o If(HasGateway, <<Add("iptables", GatewayReject)>>)
  \o If(mode = "open", <<Add("iptables", OpenAccept)>>)
  \o <<Add("iptables", AnthropicCidr)>>
  \o Privileged("iptables") \o Privileged("ip6tables")
  \o <<Add("iptables", RejectAll), Add("ip6tables", RejectAll)>>

\* Mutant: the rules are built before Squid leaves the last boot's squid.conf.
RulesBeforeSquid(kind, mode) ==
  If(kind = "boot", <<Cmd("lock")>>)
  \o <<Cmd("mode")>> \o Ruleset(mode) \o <<Cmd("squid")>>
  \o <<Cmd("check"), Cmd("record")>>
  \o If(kind = "boot", <<Cmd("finish")>>)

\* At boot sandbox-boot.sh runs the script between its own steps; the mode is
\* known from the second command on.
Script(kind, mode) ==
  If(kind = "boot", <<Cmd("lock")>>)
  \o <<Cmd("mode"), Cmd("squid")>> \o Ruleset(mode)
  \o <<Cmd("check"), Cmd("record")>>
  \o If(kind = "boot", <<Cmd("finish")>>)

-----------------------------------------------------------------------------
(* State *)

\* pc is the command the run executes next, 0 when it does not run.
NoRun == [kind |-> "switch", mode |-> "allowlist", pc |-> 0]
RunRecord == [kind : {"boot", "switch"}, mode : Modes, pc : Nat]

Idle(r) == runs[r].pc = 0
ScriptOf(r) == Script(runs[r].kind, runs[r].mode)
Command(r) == ScriptOf(r)[runs[r].pc]
Doing(r, op) == ~Idle(r) /\ Command(r).op = op
Done(r) ==
  runs' = IF runs[r].pc = Len(ScriptOf(r)) THEN [runs EXCEPT ![r] = NoRun]
                                           ELSE [runs EXCEPT ![r].pc = @ + 1]

TypeOK ==
  /\ boot \in {"off", "booting", "script", "done", "failed", "dead"}
  /\ guard \in {"none", "active", "failed"}
  /\ \A t \in Tables : chain[t].policy \in {"ACCEPT", "DROP"}
  /\ flows \subseteq Tracked
  /\ agent \in BOOLEAN /\ ungated \in BOOLEAN
  /\ squidConf \in Modes /\ squid \in Modes \union {"down"}
  /\ modeFile \in Modes /\ verify \in Modes \union {"none"}
  /\ runs \in [Run -> RunRecord]
  /\ \A r \in Run : runs[r].pc <= Len(ScriptOf(r))
  /\ loosened \in BOOLEAN /\ broken \in BOOLEAN
  /\ boots \in 0 .. MaxBoots /\ switches \in 0 .. MaxSwitches
  /\ faults \in 0 .. MaxFaults

Init ==
  /\ boot = "off" /\ guard = "none"
  /\ chain = EmptyChain /\ flows = {} /\ agent = FALSE
  /\ ungated = FALSE
  /\ squidConf \in Modes /\ squid = "down"
  /\ modeFile = "allowlist" /\ verify = "none"
  /\ runs = [r \in Run |-> NoRun]
  /\ loosened = FALSE /\ broken = FALSE
  /\ boots = 0 /\ switches = 0 /\ faults = 0

-----------------------------------------------------------------------------
(* Power, the agent and Squid *)

\* Power-on up to the network: the guard, then Squid with the squid.conf the
\* previous mode left on disk, if it can parse it.
Boot ==
  /\ boot = "off" /\ boots < MaxBoots
  /\ boots' = boots + 1
  /\ boot' = "booting"
  /\ \/ guard' = "active" /\ chain' = GuardedChain
     \/ guard' = "failed" /\ chain' = EmptyChain
  /\ squid' \in {"down", squidConf}
  /\ UNCHANGED <<flows, inside, squidConf, modeFile, verify, runs, loosened,
                 broken, switches, faults>>

\* Power-off: /run, the chains, conntrack and every process are gone.
PowerOff ==
  /\ boot # "off"
  /\ boot' = "off" /\ guard' = "none"
  /\ chain' = EmptyChain /\ flows' = {} /\ agent' = FALSE
  /\ ungated' = FALSE
  /\ squid' = "down" /\ modeFile' = "allowlist" /\ verify' = "none"
  /\ runs' = [r \in Run |-> NoRun]
  /\ loosened' = FALSE /\ broken' = FALSE
  /\ UNCHANGED <<squidConf, bounds>>

\* The agent's lingering user manager and its SSH logins need an active
\* guard.  A code-vm command needs none: the one that boots the VM waits for
\* the readiness probe, but any other only asks Lima whether the VM runs.
AgentStarts ==
  /\ ~agent
  /\ boot # "off"
  /\ agent' = TRUE
  /\ ungated' = ~(guard = "active" \/ boot = "done")
  /\ UNCHANGED <<boot, guard, chain, flows, guest, runs, loosened, broken,
                 bounds>>

Connect(p) ==
  /\ agent /\ p \notin flows
  /\ Accepted(p)
  /\ flows' = flows \union {p}
  /\ UNCHANGED <<boot, guard, chain, inside, guest, runs, loosened, broken,
                 bounds>>

SquidCrashes ==
  /\ squid # "down" /\ faults < MaxFaults
  /\ squid' = "down" /\ faults' = faults + 1
  /\ UNCHANGED <<boot, guard, chain, flows, inside, squidConf, modeFile,
                 verify, runs, loosened, broken, boots, switches>>

-----------------------------------------------------------------------------
(* The scripts *)

\* set-firewall-mode.sh: write the mode file, then exec init-firewall.sh.
SwitchMode(r, m) ==
  /\ boot # "off" /\ Idle(r) /\ switches < MaxSwitches
  /\ switches' = switches + 1
  /\ modeFile' = m
  /\ loosened' = (loosened \/ m # "allowlist")
  /\ runs' = [runs EXCEPT ![r] = [NoRun EXCEPT !.pc = 1]]
  /\ UNCHANGED <<boot, guard, chain, flows, inside, squidConf, squid, verify,
                 broken, boots, faults>>

\* sandbox-boot.service clears the markers and starts.
SandboxBoot(r) ==
  /\ boot = "booting" /\ Idle(r)
  /\ boot' = "script"
  /\ runs' = [runs EXCEPT ![r] = [NoRun EXCEPT !.kind = "boot", !.pc = 1]]
  /\ UNCHANGED <<guard, chain, flows, inside, guest, loosened, broken, bounds>>

\* Before the ERR trap is set (provision.env missing) the unit just fails.
DieUntrapped ==
  /\ boot = "booting" /\ faults < MaxFaults
  /\ boot' = "dead" /\ faults' = faults + 1
  /\ UNCHANGED <<guard, chain, flows, inside, guest, runs, loosened, broken,
                 boots, switches>>

LockSettings(r) ==
  /\ Doing(r, "lock")
  /\ Done(r)
  /\ UNCHANGED <<boot, guard, chain, flows, inside, guest, loosened, broken,
                 bounds>>

\* Mutant: no default for the mode file every boot finds absent.
ReadModeNoDefault(r) ==
  /\ Doing(r, "mode")
  /\ runs' = [runs EXCEPT ![r] = [@ EXCEPT
               !.pc = runs[r].pc + 1,
               !.mode = IF runs[r].kind = "boot" THEN "" ELSE modeFile]]
  /\ UNCHANGED <<boot, guard, chain, flows, inside, guest, loosened, broken,
                 bounds>>

ReadMode(r) ==
  /\ Doing(r, "mode")
  /\ runs' = [runs EXCEPT ![r] = [@ EXCEPT !.mode = modeFile, !.pc = runs[r].pc + 1]]
  /\ UNCHANGED <<boot, guard, chain, flows, inside, guest, loosened, broken,
                 bounds>>

\* Generate squid.conf, restart Squid and wait until it stays up.
RestartSquid(r) ==
  /\ Doing(r, "squid")
  /\ squidConf' = runs[r].mode /\ squid' = runs[r].mode
  /\ Done(r)
  /\ UNCHANGED <<boot, guard, chain, flows, inside, modeFile, verify, loosened,
                 broken, bounds>>

\* One iptables or ip6tables command on an OUTPUT chain.
Iptables(r) ==
  /\ \/ /\ Doing(r, "policy")
        /\ chain' = [chain EXCEPT ![Command(r).table].policy = "DROP"]
     \/ /\ Doing(r, "flush")
        /\ chain' = [chain EXCEPT ![Command(r).table].rules = <<>>]
     \/ /\ Doing(r, "append")
        /\ chain' = [chain EXCEPT ![Command(r).table].rules =
                       Append(@, Command(r).rule)]
  /\ Done(r)
  /\ UNCHANGED <<boot, guard, flows, inside, guest, loosened, broken, bounds>>

\* The self-check: exact rules present, in whatever order, and Squid up.
HasRule(rule) == \E i \in DOMAIN chain["iptables"].rules :
                   chain["iptables"].rules[i] = rule
ChecksPass ==
  /\ \A t \in Tables : chain[t].policy = "DROP"
  /\ HasRule(UdpDrop) /\ HasRule(ProxyAccept("iptables"))
  /\ HasGateway => HasRule(GatewayReject)
  /\ squid # "down"

CheckRules(r) ==
  /\ Doing(r, "check")
  /\ ChecksPass
  /\ Done(r)
  /\ UNCHANGED <<boot, guard, chain, flows, inside, guest, loosened, broken,
                 bounds>>

RecordVerified(r) ==
  /\ Doing(r, "record")
  /\ verify' = runs[r].mode /\ broken' = FALSE
  /\ Done(r)
  /\ UNCHANGED <<boot, guard, chain, flows, inside, squidConf, squid, modeFile,
                 loosened, bounds>>

\* Profiles (apt-get, hooks), the CLI update, and the marker the readiness
\* probe waits for.  None of the first three has a timeout: see Fairness.
FinishBoot(r) ==
  /\ Doing(r, "finish")
  /\ boot' = "done"
  /\ Done(r)
  /\ UNCHANGED <<guard, chain, flows, inside, guest, loosened, broken, bounds>>

\* Mutant: no ERR trap, a failed boot leaves no marker.
EndWithoutMarker(r) ==
  /\ runs' = [runs EXCEPT ![r] = NoRun]
  /\ broken' = TRUE
  /\ UNCHANGED <<boot, guard, chain, flows, inside, modeFile, verify, loosened,
                 boots, switches>>

\* `set -e`: the run ends where it is; at boot the ERR trap leaves a marker.
EndInFailure(r) ==
  /\ boot' = IF runs[r].kind = "boot" THEN "failed" ELSE boot
  /\ runs' = [runs EXCEPT ![r] = NoRun]
  /\ broken' = TRUE
  /\ UNCHANGED <<guard, chain, flows, inside, modeFile, verify, loosened,
                 boots, switches>>

CheckFails(r) ==
  /\ Doing(r, "check") /\ ~ChecksPass
  /\ EndInFailure(r)
  /\ UNCHANGED <<squidConf, squid, faults>>

\* Any other step may fail; a Squid restart can fail with the new squid.conf
\* on disk and the port closed.
StepFails(r) ==
  /\ ~Idle(r) /\ faults < MaxFaults
  /\ faults' = faults + 1
  /\ EndInFailure(r)
  /\ \/ UNCHANGED <<squidConf, squid>>
     \/ Doing(r, "squid") /\ squidConf' = runs[r].mode /\ squid' = "down"

-----------------------------------------------------------------------------
ScriptStep(r) ==
  \/ LockSettings(r) \/ ReadMode(r) \/ RestartSquid(r) \/ Iptables(r)
  \/ CheckRules(r) \/ CheckFails(r) \/ RecordVerified(r) \/ FinishBoot(r)

Next ==
  \/ Boot \/ PowerOff \/ AgentStarts \/ SquidCrashes \/ DieUntrapped
  \/ \E p \in Tracked : Connect(p)
  \/ \E r \in Run : \/ \E m \in Modes : SwitchMode(r, m)
                    \/ SandboxBoot(r) \/ ScriptStep(r) \/ StepFails(r)

\* systemd starts the boot service, and a script goes on: its commands are
\* local, and its wait for Squid is counted.  Not so the boot's last step:
\* profile hooks, apt-get and the installers may hang, and neither the script
\* nor the oneshot unit sets them a limit.
AtProfiles(r) == Doing(r, "finish")
Fairness ==
  /\ WF_vars(\E r \in Run : SandboxBoot(r))
  /\ \A r \in Run : WF_vars(ScriptStep(r) /\ ~AtProfiles(r))

Spec == Init /\ [][Next]_vars
FairSpec == Spec /\ Fairness

-----------------------------------------------------------------------------
(* Properties *)

\* README: "In every mode the agent still cannot reach host services, and DNS
\* tunneling to external resolvers stays blocked": at no point of any script,
\* on any boot, does a connection of the agent to the host or to a foreign
\* resolver get through, where the ESTABLISHED rule would keep it alive.  (For
\* an agent that did not slip into a boot whose guard had failed.)
NoHostServices ==
  ~ungated => /\ {"gateway6", "udp"} \intersect flows = {}
              /\ HasGateway => "gateway" \notin flows

\* README: "The agent never has unfiltered egress, not even while the guest
\* boots": until a looser mode is asked for on this boot, no connection of the
\* agent gets past the proxy, whatever command of the script is executing.
NeverUnfiltered == ~loosened /\ ~ungated => "web" \notin flows

\* README: "restarting the VM always reverts to allowlist", and early-egress.sh
\* on why loopback is not exempt: until a looser mode is asked for on this
\* boot, the agent never reaches a Squid that still runs with the loose
\* squid.conf an earlier boot left on disk.
RestartReverts ==
  ~loosened =>
    /\ verify \in {"none", "allowlist"}
    /\ agent /\ ~ungated => ~(Accepted("lo") /\ squid \in {"audit", "open"})

\* What a mode means, packet by packet, for connections not yet established.
Intended(mode) ==
  {"lo", "guest", "dns", "api", "root", "apt", "proxy", "lo6", "dns6", "ndp"}
  \union (IF mode = "open" THEN {"web"} ELSE {})
  \union (IF mode = "open" /\ ~HasGateway THEN {"gateway"} ELSE {})

\* Once the script has written its verify file and no run is under way, the
\* chains accept exactly the packets the recorded mode promises.
RulesMeanMode ==
  (verify # "none" /\ ~broken /\ \A r \in Run : Idle(r))
    => {p \in Packet \ flows : Accepted(p)} = Intended(verify) \ flows

\* init-firewall.sh: the verify file is "written only once every check above
\* has passed, so its presence is a real success signal": while no run is
\* under way, a verify file means that the last run passed its checks.
VerifyIsSuccess ==
  verify # "none" /\ (\A r \in Run : Idle(r)) => ~broken

\* A boot whose trap is set does not stop silently between its markers: it
\* leaves one, is powered off, or gets past its own verified firewall to the
\* profiles and the CLI update, the only place where a boot may stay.
BootReachesProfiles ==
  boot = "script" ~> boot # "script" \/ \E r \in Run : AtProfiles(r)
=============================================================================
