----------------------------------- MODULE MCServices --------------------------
(***************************************************************************)
(* What programs are given: the system call proxy and its connections,     *)
(* anonymous memory, the virtual interface with its switch, their          *)
(* configuration and the clocks.  In each behaviour one of them moves.     *)
(***************************************************************************)
EXTENDS SysProxy, MmapMem, VirtIf, RrConfig, Clocks, TLC

VARIABLE which

(* Configurations: trees of up to three of the keys, and texts that are    *)
(* no configuration.                                                       *)
MCS(v) == [t |-> "s", v |-> v]
MCA(m) == [t |-> "a", m |-> m]
MCO(m) == [t |-> "o", m |-> m]
MCBin(b, args, mode) ==
  MCO(<<<<"argv", MCA(args)>>, <<"bin", MCS(b)>>>> \o (IF mode = "-" THEN <<>> ELSE <<<<"runmode", MCS(mode)>>>>))
MCRcs == {MCA(<<MCBin("b1", <<MCS("x"), MCS("y")>>, "|"), MCBin("b2", <<>>, "-")>>), MCA(<<MCBin("b1", <<MCS("x")>>, "&")>>),
          MCA(<<MCBin("b1", <<>>, "|")>>), MCA(<<MCO(<<<<"bin", MCS("b1")>>>>)>>)}
MCNet(type, method) ==
  MCO(<<<<"if", MCS("i0")>>, <<"type", MCS(type)>>, <<"method", MCS(method)>>, <<"addr", MCS("a")>>, <<"mask", MCS("m")>>>>)
MCBlk(src, mp) ==
  MCO(<<<<"source", MCS(src)>>, <<"path", MCS("p")>>>>
      \o (IF mp = "-" THEN <<>> ELSE <<<<"fstype", MCS("blk")>>, <<"mountpoint", MCS(mp)>>>>))
MCItems == {<<"cmdline", MCS("prog")>>, <<"env", MCS("e1")>>, <<"hostname", MCS("h")>>}
  \cup {<<"rc_TESTING", r>> : r \in MCRcs}
  \cup {<<"net", MCNet("inet", "dhcp")>>, <<"net", MCNet("inet6", "static")>>}
  \cup {<<"blk", MCBlk("vnd", "/m")>>, <<"blk", MCBlk("etfs", "/n")>>, <<"blk", MCBlk("dev", "-")>>}
MCTrees == {MCO(s) : s \in UNION {[1..n -> MCItems] : n \in 1..3}}
MCW(x) == Lex("s", x)
MCNumber == <<Lex("p", "1")>>
MCKv(k, v) == <<MCW(k)>> \o Sign(":") \o v
MCBraces(x) == Sign("{") \o x \o Sign("}")
MCOthers ==
  {MCBraces(MCKv(k, MCNumber)) : k \in {"env", "hostname", "net", "blk", "rc_TESTING", "cmdline"}}
  \cup {MCBraces(MCKv(k, <<MCW("p")>>)) : k \in {"cmd", "odd"}}
  \cup {MCBraces(MCKv(k, MCBraces(MCKv(f, <<MCW("b")>>)))) : k \in {"net", "blk"}, f \in {"if", "path", "odd"}}
  \cup {MCBraces(MCKv(k, MCBraces(<<MCW("a")>> \o Sign(",") \o <<MCW("b")>>))) : k \in {"net", "blk"}}
  \cup {<<MCW("a")>>, Sign("{"), Sign("{") \o Sign("]"), Sign("{") \o <<Lex("x", "-")>>,
        MCBraces(MCKv("net", MCBraces(MCKv("if", <<MCW("b")>>) \o Sign(",") \o MCKv("type", <<MCW("inet")>>)
                                      \o Sign(",") \o MCKv("method", <<MCW("odd")>>)))),
        MCBraces(MCKv("rc_TESTING", Sign("[") \o MCBraces(MCKv("odd", <<MCW("b")>>)) \o Sign("]")))}
MCBegins == {<<"cmd", "cmdline">>}

MCSymmetry == Permutations(SpWorkers)

MCParts == {"proxy", "wire", "mmap", "interface", "config", "clocks"}

MCInit ==
  /\ which \in MCParts
  /\ SpInit
  /\ WiInit /\ (which # "wire" => \A s \in WiSenders : wiLen[s] = HDRSZ)
  /\ MmInit
  /\ ViInit /\ (which # "interface" => phys_ifp)
  /\ CfInit /\ (which # "config" => cfText = <<Lex("s", "a")>>)
  /\ ClInit /\ (which # "clocks" => ckKind = "boot")

MCStill(w) ==
  /\ w # "proxy" => UNCHANGED spVars
  /\ w # "wire" => UNCHANGED wiVars
  /\ w # "mmap" => UNCHANGED mmVars
  /\ w # "interface" => UNCHANGED viVars
  /\ w # "config" => UNCHANGED cfVars
  /\ w # "clocks" => UNCHANGED clVars

MCSysProxy == which = "proxy" /\ SpNext /\ UNCHANGED which /\ MCStill("proxy")
MCSpWire == which = "wire" /\ WiNext /\ UNCHANGED which /\ MCStill("wire")
MCMmapMem == which = "mmap" /\ MmNext /\ UNCHANGED which /\ MCStill("mmap")
MCVirtIf == which = "interface" /\ ViNext /\ UNCHANGED which /\ MCStill("interface")
MCRrConfig == which = "config" /\ CfNext /\ UNCHANGED which /\ MCStill("config")
MCClocks == which = "clocks" /\ ClNext /\ UNCHANGED which /\ MCStill("clocks")

MCNext == MCSysProxy \/ MCSpWire \/ MCMmapMem \/ MCVirtIf \/ MCRrConfig \/ MCClocks

MCSpec == MCInit /\ [][MCNext]_<<which, spVars, wiVars, mmVars, viVars, cfVars, clVars>>

-----------------------------------------------------------------------------
(* The system call proxy keeps its clients and the processes they stand    *)
(* for, and no frame on a connection is cut or mixed with another          *)
(* (librumprun_base/sysproxy.c).                                           *)
ProxySound == ServerSound /\ FramesWhole
================================================================================
