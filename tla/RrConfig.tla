------------------------------- MODULE RrConfig --------------------------------
(***************************************************************************)
(* The configuration of a unikernel: libbmk_core/jsmn.c turns the text     *)
(* into an array of tokens, and librumprun_base/config.c walks over it and *)
(* carries out what it says.  The text is a sequence of lexemes: brackets, *)
(* ":" and ",", strings "s" and other words "p" with their contents, and   *)
(* "x", a string or a word that cannot be scanned.                         *)
(***************************************************************************)
EXTENDS Integers, Sequences, SequencesExt, FiniteSets, FiniteSetsExt

CONSTANTS
  CfTrees,      \* configurations: [t, m] or [t, v], t "o", "a" or "s"
  CfOther,      \* texts that are not the text of one
  CfPrefixes    \* pairs <<a, b>> of strings, a a proper beginning of b

VARIABLES
  cfTree, cfText,   \* the configuration, NoTree if none; its text
  cfJ,              \* the parser: [at, toks, super, err]
  cfPos,            \* where the walk over the tokens is
  cfPc,             \* "start", "parse", "walk", "done", "failed", "crashed"
  cfHost,           \* a call to the kernel has failed
  cfDid             \* what has been done

cfVars == <<cfTree, cfText, cfJ, cfPos, cfPc, cfHost, cfDid>>

Absent == "-"
Lex(c, v) == [c |-> c, v |-> v]
Sign(c) == <<Lex(c, Absent)>>
NoTree == [t |-> "o", m |-> <<>>]

(* The text of a configuration.                                            *)
RECURSIVE TextOf(_)
TextOf(J) ==
  LET Joined(F(_)) == FlattenSeq([i \in DOMAIN J.m |-> (IF i = 1 THEN <<>> ELSE Sign(",")) \o F(J.m[i])])
  IN  CASE J.t = "s" -> <<Lex("s", J.v)>>
        [] J.t = "a" -> Sign("[") \o Joined(TextOf) \o Sign("]")
        [] J.t = "o" -> Sign("{") \o Joined(LAMBDA x : <<Lex("s", x[1])>> \o Sign(":") \o TextOf(x[2])) \o Sign("}")

-----------------------------------------------------------------------------
(* jsmn.  The parser is at a lexeme; super is 0 when there is no token     *)
(* around it.  Without an array it only counts.                            *)
cfTok == cfJ.toks
jsmn_init == [at |-> 1, toks |-> <<>>, super |-> 0, err |-> "none"]
Token(type, v) == [type |-> type, open |-> type \in {"object", "array"}, size |-> 0, v |-> v]
Failing(J, e) == [J EXCEPT !.err = e]
Greater(S) == IF S = {} THEN 0 ELSE Max(S)
OpenIn(J) == {i \in DOMAIN J.toks : J.toks[i].open}

jsmn_alloc_token(J, n, tok) ==
  IF Len(J.toks) >= n THEN Failing(J, "nomem") ELSE [J EXCEPT !.toks = Append(@, tok)]
(* The token around the new one gets it as one more child.                 *)
Child(J, K) == IF K.err # "none" \/ J.super = 0 THEN K ELSE [K EXCEPT !.toks[J.super].size = @ + 1]

jsmn_parse_string(J, n, l) == Child(J, jsmn_alloc_token(J, n, Token("string", l.v)))
jsmn_parse_primitive(J, n, l) == Child(J, jsmn_alloc_token(J, n, Token("primitive", l.v)))

OpenBracket(J, n, type) ==
  LET K == Child(J, jsmn_alloc_token(J, n, Token(type, Absent))) IN
  IF K.err # "none" THEN K ELSE [K EXCEPT !.super = Len(K.toks)]
(* The innermost open bracket is closed; the next one that is open is      *)
(* around what follows.                                                    *)
CloseBracket(J, type) ==
  LET i == Greater(OpenIn(J)) IN
  IF i = 0 \/ J.toks[i].type # type THEN Failing(J, "inval")
  ELSE [J EXCEPT !.toks[i].open = FALSE, !.super = Greater(OpenIn(J) \ {i})]
Colon(J) == [J EXCEPT !.super = Len(J.toks)]
(* After a value: back from its key to the bracket.                        *)
AfterValue(J) ==
  IF J.super # 0 /\ J.toks[J.super].type \notin {"array", "object"} /\ OpenIn(J) # {}
  THEN [J EXCEPT !.super = Max(OpenIn(J))] ELSE J

JsmnStep(J, n, l) ==
  CASE l.c = "{" -> OpenBracket(J, n, "object")
    [] l.c = "[" -> OpenBracket(J, n, "array")
    [] l.c = "}" -> CloseBracket(J, "object")
    [] l.c = "]" -> CloseBracket(J, "array")
    [] l.c = ":" -> Colon(J)
    [] l.c = "," -> AfterValue(J)
    [] l.c = "s" -> jsmn_parse_string(J, n, l)
    [] l.c = "p" -> jsmn_parse_primitive(J, n, l)
jsmn_count(text) == Cardinality({i \in DOMAIN text : text[i].c \in {"{", "[", "s", "p"}})

-----------------------------------------------------------------------------
(* The walk.  T_STREQ compares as many characters as the token has: the    *)
(* beginning of a name is taken for the name.                              *)
Beyond == Token("beyond", Absent)
Tok(i) == IF i \in DOMAIN cfTok THEN cfTok[i] ELSE Beyond
T_STREQ(t, str) == t.v = str \/ <<t.v, str>> \in CfPrefixes
NameOf(t, names) ==
  LET S == {i \in DOMAIN names : T_STREQ(t, names[i])} IN
  IF S = {} THEN Absent ELSE names[Min(S)]

(* A key and its value are two strings.                                    *)
PairOk(i) ==
  /\ Tok(i).type = "string" /\ Tok(i).size = 1
  /\ Tok(i + 1).type = "string" /\ Tok(i + 1).size = 0
(* The pairs of an object of blk or net, as a function of the names.       *)
PairsOf(t, names) ==
  LET At(k) == t + 2 * k - 1
      Of(name) == {k \in 1..Tok(t).size : NameOf(Tok(At(k)), names) = name}
  IN  [ok |-> \A k \in 1..Tok(t).size : PairOk(At(k)) /\ NameOf(Tok(At(k)), names) # Absent,
       val |-> [name \in Range(names) |->
                  IF Of(name) = {} THEN Absent ELSE Tok(At(Max(Of(name))) + 1).v]]

NothingDone == [execs |-> <<>>, env |-> <<>>, host |-> Absent, blk |-> <<>>, net |-> <<>>, vnd |-> 0]
CfInit ==
  /\ \/ cfTree \in CfTrees /\ cfText = TextOf(cfTree)
     \/ cfTree = NoTree /\ cfText \in CfOther
  /\ cfJ = jsmn_init /\ cfPos = 0 /\ cfPc = "start" /\ cfHost = FALSE /\ cfDid = NothingDone

Stays == UNCHANGED <<cfTree, cfText, cfJ>>
Gives_up == cfPc' = "failed" /\ UNCHANGED <<cfPos, cfDid>> /\ Stays
Rejects == Gives_up /\ UNCHANGED cfHost
(* errx after a call that failed.                                          *)
CallFails == Gives_up /\ cfHost' = TRUE
Does(did, n) ==
  /\ cfDid' = did /\ cfPos' = cfPos + 1 + n /\ UNCHANGED <<cfPc, cfHost>> /\ Stays
-----------------------------------------------------------------------------
(* The handlers, at the token behind the key.  A handler that returns -1   *)
(* takes the walk back to the key.                                         *)
H == cfPos + 1
Walks(name) ==
  /\ cfPc = "walk" /\ cfPos <= Len(cfTok)
  /\ Tok(cfPos).type = "string" /\ NameOf(Tok(cfPos), <<"cmdline", "rc_TESTING", "env", "hostname", "blk", "net">>) = name
OneString(Handle) == IF Tok(H).type = "string" THEN Handle ELSE Rejects

Exec(bin, args, mode) == [bin |-> bin, args |-> args, mode |-> mode]
makeargv(v) == [cfDid EXCEPT !.execs = Append(@, Exec(v, <<>>, "cmdline"))]
handle_cmdline == Walks("cmdline") /\ OneString(Does(makeargv(Tok(H).v), 1))
handle_env ==
  /\ Walks("env")
  /\ OneString(Does([cfDid EXCEPT !.env = Append(@, Tok(H).v)], 1) \/ CallFails)
handle_hostname ==
  /\ Walks("hostname")
  /\ OneString(Does([cfDid EXCEPT !.host = Tok(H).v], 1) \/ CallFails)

(* addbin: the keys of one program, and how many tokens they are.  argv    *)
(* is used whether there was one or not.                                   *)
NoBin == [bin |-> Absent, argv |-> 0, mode |-> Absent, bad |-> FALSE, size |-> 1]
(* Mutant: the contents of the array are not counted.                      *)
KeyAndArray(value) == 1 + 1
ArgvSize(value) == 1 + 1 + value.size
RECURSIVE BinKeys(_, _, _)
BinKeys(t, left, b) ==
  IF left = 0 \/ b.bad THEN b
  ELSE LET key == Tok(t)
           value == Tok(t + 1)
           name == IF key.type = "string" THEN NameOf(key, <<"bin", "argv", "runmode">>) ELSE Absent
       IN  IF name = "argv" /\ value.type = "array"
           THEN BinKeys(t + ArgvSize(value), left - 1,
                        [b EXCEPT !.argv = t + 1, !.size = @ + ArgvSize(value)])
           ELSE IF name = "bin" /\ PairOk(t)
           THEN BinKeys(t + 2, left - 1, [b EXCEPT !.bin = value.v, !.size = @ + 2])
           ELSE IF name = "runmode" /\ PairOk(t)
           THEN BinKeys(t + 2, left - 1, [b EXCEPT !.mode = value.v, !.size = @ + 2])
           ELSE [b EXCEPT !.bad = TRUE]
ArgsAt(a) == [i \in 1..Tok(a).size |-> Tok(a + i)]
addbin(t) ==
  LET b == BinKeys(t + 1, Tok(t).size, NoBin) IN
  IF \/ Tok(t).type # "object" \/ b.bad \/ b.bin = Absent \/ b.mode \notin {Absent, "&", "|"}
     \/ b.argv # 0 /\ \E i \in 1..Tok(b.argv).size : ArgsAt(b.argv)[i].type # "string"
  THEN [b EXCEPT !.bad = TRUE] ELSE b

(* handle_rc: the programs one after the other.                            *)
RECURSIVE Bins(_, _, _)
Bins(t, left, r) ==
  IF left = 0 \/ r.end # "ok" THEN [r EXCEPT !.next = t]
  ELSE LET b == addbin(t) IN
       IF b.bad THEN [r EXCEPT !.end = "failed"]
       ELSE IF b.argv = 0 THEN [r EXCEPT !.end = "crashed"]
       ELSE Bins(t + b.size, left - 1,
              [r EXCEPT !.execs = Append(@, Exec(b.bin, [i \in 1..Tok(b.argv).size |-> ArgsAt(b.argv)[i].v], b.mode))])
handle_rc ==
  LET r == Bins(H + 1, Tok(H).size, [execs |-> cfDid.execs, end |-> "ok", next |-> H]) IN
  /\ Walks("rc_TESTING")
  /\ IF Tok(H).type # "array" \/ r.end = "failed" THEN Rejects
     ELSE IF r.end = "crashed"
     THEN cfPc' = "crashed" /\ UNCHANGED <<cfPos, cfHost, cfDid>> /\ Stays
     ELSE Does([cfDid EXCEPT !.execs = r.execs], r.next - H)

(* An object of pairs is read when the tokens that are left can be that    *)
(* many; otherwise the handler returns -1 and the walk is back at the key. *)
PairsFit == Len(cfTok) - cfPos >= 2 * Tok(H).size + 1
PairsRead(names) == Tok(H).type = "object" /\ PairsFit /\ PairsOf(H, names).ok
PairsRefused(names) ==
  \/ (Tok(H).type # "object" \/ PairsFit) /\ ~PairsRead(names) /\ Rejects
  \/ Tok(H).type = "object" /\ ~PairsFit /\ cfPos' = cfPos /\ UNCHANGED <<cfPc, cfHost, cfDid>> /\ Stays

(* The address: from the network, or static with address and mask.         *)
config_ipv4(v) == v.method = "dhcp" \/ (v.method = "static" /\ v.addr # Absent /\ v.mask # Absent)
config_ipv6(v) == v.method = "auto" \/ (v.method = "static" /\ v.addr # Absent /\ v.mask # Absent)
NetNames == <<"if", "cloner", "type", "method", "addr", "mask", "gw">>
handle_net ==
  /\ Walks("net")
  /\ \/ PairsRefused(NetNames)
     \/ /\ PairsRead(NetNames)
        /\ LET v == PairsOf(H, NetNames).val IN
           IF Absent \in {v["if"], v.type, v.method} THEN Rejects
           ELSE \/ CallFails
                \/ IF (v.type = "inet" /\ config_ipv4(v)) \/ (v.type = "inet6" /\ config_ipv6(v))
                   THEN Does([cfDid EXCEPT !.net = Append(@, v)], 2 * Tok(H).size + 1) ELSE Rejects

(* The device: itself, the next vnd, or one of the host.                   *)
configvnd == [dev |-> <<"vnd", cfDid.vnd>>, vnd |-> cfDid.vnd + 1]
configetfs(path) == [dev |-> <<"etfs", path>>, vnd |-> cfDid.vnd]
SourceDev(v) ==
  CASE v.source = "vnd" -> configvnd
    [] v.source = "etfs" -> configetfs(v.path)
    [] OTHER -> [dev |-> <<"dev", v.path>>, vnd |-> cfDid.vnd]
BlkNames == <<"source", "path", "fstype", "mountpoint">>
handle_blk ==
  /\ Walks("blk")
  /\ \/ PairsRefused(BlkNames)
     \/ /\ PairsRead(BlkNames)
        /\ LET v == PairsOf(H, BlkNames).val IN
           IF \/ v.source \notin {"dev", "vnd", "etfs"} \/ v.path = Absent
              \/ v.mountpoint # Absent /\ v.fstype \notin {"blk", "kernfs"}
           THEN Rejects
           ELSE \/ CallFails
                \/ Does([cfDid EXCEPT !.vnd = SourceDev(v).vnd,
                            !.blk = IF v.mountpoint = Absent THEN @
                                    ELSE Append(@, <<SourceDev(v).dev, v.fstype, v.mountpoint>>)],
                        2 * Tok(H).size + 1)

-----------------------------------------------------------------------------
(* rumprun_config.  The text may have to be read from the root filesystem. *)
getcmdlinefromroot ==
  /\ cfPc = "start"
  /\ \/ cfPc' = "parse" /\ UNCHANGED <<cfPos, cfDid, cfHost>> /\ Stays
     \/ CallFails
(* Without a "{" there is one program, rumprun; otherwise what is before   *)
(* it is skipped, and the tokens are counted.                              *)
FromBrace == LET S == {i \in DOMAIN cfText : cfText[i].c = "{"} IN
  IF S = {} THEN <<>> ELSE SubSeq(cfText, Min(S), Len(cfText))
FindBrace ==
  /\ cfPc = "parse"
  /\ IF FromBrace = <<>>
     THEN cfPc' = "done" /\ cfDid' = makeargv("rumprun") /\ UNCHANGED <<cfPos, cfHost>> /\ Stays
     ELSE IF \E i \in DOMAIN FromBrace : FromBrace[i].c = "x" THEN Rejects
     ELSE /\ cfText' = FromBrace /\ cfPc' = "scan" /\ UNCHANGED <<cfTree, cfJ, cfPos, cfHost, cfDid>>
(* Then they are made, one after the other.                                *)
jsmn_parse ==
  /\ cfPc = "scan" /\ cfJ.err = "none" /\ cfJ.at <= Len(cfText)
  /\ cfJ' = [JsmnStep(cfJ, jsmn_count(cfText), cfText[cfJ.at]) EXCEPT !.at = cfJ.at + 1]
  /\ UNCHANGED <<cfTree, cfText, cfPc, cfPos, cfHost, cfDid>>
Scanned ==
  /\ cfPc = "scan" /\ (cfJ.err # "none" \/ cfJ.at > Len(cfText))
  /\ IF cfJ.err # "none" \/ OpenIn(cfJ) # {} THEN Rejects
     ELSE cfPos' = 1 /\ cfPc' = "walk" /\ UNCHANGED <<cfHost, cfDid>> /\ Stays
EnterObject ==
  /\ cfPc = "walk" /\ cfPos <= Len(cfTok) /\ Tok(cfPos).type = "object"
  /\ cfPos' = cfPos + 1 /\ UNCHANGED <<cfPc, cfHost, cfDid>> /\ Stays
NoMatch ==
  /\ cfPc = "walk" /\ cfPos <= Len(cfTok) /\ Tok(cfPos).type # "object"
  /\ Tok(cfPos).type # "string" \/ Walks(Absent)
  /\ Rejects
rumprun_config ==
  /\ cfPc = "walk" /\ cfPos > Len(cfTok)
  /\ IF cfDid.execs = <<>> \/ Last(cfDid.execs).mode = "|" THEN Rejects
     ELSE cfPc' = "done" /\ UNCHANGED <<cfPos, cfHost, cfDid>> /\ Stays

CfNext ==
  \/ getcmdlinefromroot \/ FindBrace \/ jsmn_parse \/ Scanned \/ EnterObject \/ NoMatch \/ rumprun_config
  \/ handle_cmdline \/ handle_rc \/ handle_env \/ handle_hostname \/ handle_net \/ handle_blk
CfSpec == CfInit /\ [][CfNext]_cfVars
-----------------------------------------------------------------------------
(* What a configuration says.                                              *)
Field(J, k) ==
  LET S == {i \in DOMAIN J.m : J.m[i][1] = k} IN
  IF S = {} THEN [t |-> "s", v |-> Absent] ELSE J.m[Max(S)][2]
Said(k) == SelectSeq(cfTree.m, LAMBDA x : x[1] = k)
StringsOf(s) == [i \in DOMAIN s |-> s[i].v]
NoArgv(b) == Field(b, "argv").t # "a"
SaidExecs ==
  FoldLeft(LAMBDA s, x :
      CASE x[1] = "cmdline" -> Append(s, Exec(x[2].v, <<>>, "cmdline"))
        [] x[1] = "rc_TESTING" -> s \o [i \in DOMAIN x[2].m |->
             LET b == x[2].m[i] IN
             Exec(Field(b, "bin").v, IF NoArgv(b) THEN <<>> ELSE StringsOf(Field(b, "argv").m), Field(b, "runmode").v)]
        [] OTHER -> s,
    <<>>, cfTree.m)
SaidMounts ==
  LET At(i) == Said("blk")[i][2]
      Vnds(i) == Cardinality({j \in 1..(i - 1) : Field(At(j), "source").v = "vnd"})
      Dev(i) == LET src == Field(At(i), "source").v IN
                <<src, IF src = "vnd" THEN Vnds(i) ELSE Field(At(i), "path").v>>
      All == [i \in DOMAIN Said("blk") |-> <<Dev(i), Field(At(i), "fstype").v, Field(At(i), "mountpoint").v>>]
  IN  SelectSeq(All, LAMBDA m : m[3] # Absent)
Runnable == SaidExecs # <<>> /\ Last(SaidExecs).mode # "|"
SomeNoArgv == \E i \in DOMAIN Said("rc_TESTING") :
  \E j \in DOMAIN Said("rc_TESTING")[i][2].m : NoArgv(Said("rc_TESTING")[i][2].m[j])

(* When the walk over a configuration ends, the programs, their arguments  *)
(* and modes, the environment, the mounts and the interfaces are those it  *)
(* says, in its order; it is given up only when a call failed or there is  *)
(* nothing to run; and the walk never leaves the tokens.  The array the    *)
(* first pass of the parser asks for is large enough for the second.       *)
ConfigRead ==
  /\ cfJ.err # "nomem"
  /\ cfTree # NoTree =>
       /\ cfPc = "done" =>
            /\ cfDid.execs = SaidExecs
            /\ cfDid.env = [i \in DOMAIN Said("env") |-> Said("env")[i][2].v]
            /\ cfDid.blk = SaidMounts /\ Len(cfDid.net) = Len(Said("net"))
            /\ \A i \in DOMAIN cfDid.net : \A k \in DOMAIN cfDid.net[i] :
                 cfDid.net[i][k] = Field(Said("net")[i][2], k).v
       /\ cfPc = "failed" => cfHost \/ ~Runnable
       /\ cfPc = "crashed" => SomeNoArgv
       /\ cfPos <= Len(cfTok) + 1

=============================================================================
