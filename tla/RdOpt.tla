------------------------------- MODULE RdOpt -------------------------------
(***************************************************************************)
(* The command line parser of rdopt.c.                                     *)
(*                                                                         *)
(* A table of options and a list of arguments are given; every step of the *)
(* model is one turn of the loop over the arguments in rd_opt_parse().  An *)
(* argument is a record: empty, a word, "--help", or a short or a long     *)
(* option with a name and, in val, what is attached to it ("-nVAL",        *)
(* "--name=VAL").  A word is a number, the path of a file or other text.   *)
(* An option is parsed by rd_opt_parse_assign() if it has a pointer to     *)
(* assign to and no parser of the application, which may accept or refuse  *)
(* what it is given.  An assigned value is a number or, for strings, the   *)
(* index of the argument that is pointed to.                               *)
(***************************************************************************)
EXTENDS RdBits, SequencesExt

CONSTANTS
    OptTables,  \* tables of options (sequences of rd_opt_t)
    OptArgs,    \* arguments
    MaxArgc,    \* bound on the arguments
    OptsMax     \* greatest index in opts_found, 512 in the code

None == "none"      \* no name, or nothing attached
NotGiven == -1      \* the value of an option that was never assigned

\* rd_opt_t; short and long are None when the option has no such name.
Options ==
    [short : STRING, long : STRING, argcnt : {0, 1}, req : BOOLEAN, mut : 0..4,
     type : {"str", "int", "path", "bool", "nil"},
     opaque : BOOLEAN, parse : BOOLEAN]

ASSUME OptAssumption ==
    /\ OptTables \subseteq Seq(Options)
    /\ OptArgs \subseteq [kind : {"empty", "word", "help", "short", "long"},
                          name : STRING, val : STRING]
    /\ MaxArgc \in Nat /\ OptsMax \in Nat

VARIABLES
    ros,            \* the table
    argv,           \* the arguments behind argv[0]
    argi,           \* the argument looked at
    mutro,          \* per index of a group, the option seen in it, or 0
    opts_found,     \* bit vector of the options seen
    optVal,         \* per option, the value behind its ro_opaque
    optRet,         \* what rd_opt_parse() returns, "run" before
    given           \* history: options in the order they were taken

optVars == <<ros, argv, argi, mutro, opts_found, optVal, optRet, given>>

\* RD_OPT_MUT_GRP: the bit of a group, shifted, is taken for its index.  That of
\* group 4 is outside of mutro[].
RD_OPT_MUT_NUM == 4
MutGrp(ro) == <<1, 2, 4, 8>>[ro.mut]
InMutro(ro) == MutGrp(ro) <= RD_OPT_MUT_NUM

\* mutro[mg] is not NULL.  Behind the end of mutro[] the stack may hold anything,
\* whatever was stored there before; stray is what is found.
MutSeen(ro, stray) == IF InMutro(ro) THEN mutro[MutGrp(ro)] # 0 ELSE stray

\* rd_opt_parse() is called with a table and arguments.
OptStart(table, args) ==
    /\ ros = table /\ argv = args
    /\ argi = 1
    /\ mutro = [mg \in 0..RD_OPT_MUT_NUM |-> 0]
    /\ opts_found = rd_bitvec_init(OptsMax)
    /\ optVal = [o \in DOMAIN table |-> NotGiven]
    /\ optRet = "run"
    /\ given = <<>>

OptInit ==
    \E table \in OptTables, args \in BoundedSeq(OptArgs, MaxArgc) : OptStart(table, args)

Parsing == optRet = "run" /\ argi <= Len(argv)
Arg == argv[argi]

\* The loop stops at the first word.
AtWord == Arg.kind = "word"

\* An argument names an option: the whole of a long one is compared, with what
\* follows a '=' in it.
Names(arg, ro) ==
    \/ arg.kind = "short" /\ ro.short = arg.name
    \/ arg.kind = "long" /\ ro.long = arg.name /\ arg.val = None

\* The index of the first option an argument names, or 0.
Named(arg) == SelectInSeq(ros, LAMBDA ro : arg.name # None /\ Names(arg, ro))

\* The argument that holds the value: the next one unless one is attached.
Newi(ro) ==
    IF ro.argcnt # 0 /\ Arg.val = None /\ argi < Len(argv) THEN argi + 1 ELSE argi
HasVal(ro) == Arg.val # None \/ Newi(ro) # argi

\* Variant with a fault: required options may be mixed.
MutTakenIfFree(ro, stray) == ~ro.req /\ ro.mut # 0 /\ MutSeen(ro, stray)

\* An option of the same group, or the option itself, was seen before.
MutTaken(ro, stray) == ro.mut # 0 /\ MutSeen(ro, stray)

\* strtol() of an argument finds a number; stat() finds a file.
IsNumber(arg) == arg.kind = "word" /\ arg.val \in {"0", "7"}
Number(arg) == IF arg.val = "7" THEN 7 ELSE 0
IsPath(arg) == arg.kind = "word" /\ arg.val = "path"

\* rd_opt_parse_assign() finds nothing wrong with the argument at newi.
AssignAccepts(ro, newi) ==
    \/ ro.argcnt = 0 \/ ro.type = "nil"
    \/ ro.type \in {"int", "bool"} /\ IsNumber(argv[newi])
    \/ ro.type = "path" /\ IsPath(argv[newi])
    \/ ro.type = "str" /\ argv[newi].kind # "empty"

\* The parser that is called for an option, if any.
Parser(ro) == IF ro.parse THEN "own" ELSE IF ro.opaque THEN "assign" ELSE None

\* The parser finds nothing wrong with the argument at newi; ok is the answer of
\* a parser of the application, which is taken to leave *argip where it is.
Accepts(ro, newi, ok) ==
    \/ Parser(ro) = None \/ (Parser(ro) = "own" /\ ok)
    \/ Parser(ro) = "assign" /\ AssignAccepts(ro, newi)

\* The value that rd_opt_parse_assign() leaves, with old as the one before.
AssignedValue(ro, newi, old) ==
    IF ro.argcnt = 0 THEN (IF ro.type \in {"bool", "int"} THEN 1 ELSE old)
    ELSE CASE ro.type = "int" -> Number(argv[newi])
           [] ro.type = "bool" -> IF Number(argv[newi]) = 0 THEN 0 ELSE 1
           [] ro.type \in {"path", "str"} -> newi
           [] ro.type = "nil" -> old

\* What is left behind ro_opaque.
Assigned(ro, newi, old) ==
    IF Parser(ro) = "assign" THEN AssignedValue(ro, newi, old) ELSE old

-----------------------------------------------------------------------------
Return(ret) ==
    /\ optRet' = ret
    /\ UNCHANGED <<ros, argv, argi, mutro, opts_found, optVal, given>>

SkipEmpty ==
    /\ Parsing /\ Arg.kind = "empty"
    /\ argi' = argi + 1
    /\ UNCHANGED <<ros, argv, mutro, opts_found, optVal, optRet, given>>

Help == Parsing /\ Arg.kind = "help" /\ Return("(help)")

IsOption == Arg.kind \in {"short", "long"}

UnknownOption == Parsing /\ IsOption /\ Named(Arg) = 0 /\ Return("Unknown option")

\* The checks of an option that is in the table, and its parser.
RejectOption(ok, stray) ==
    /\ Parsing /\ IsOption /\ Named(Arg) # 0
    /\ LET ro == ros[Named(Arg)]
       IN  \/ (ro.argcnt # 0) # HasVal(ro)
           \/ MutTaken(ro, stray)
           \/ ~Accepts(ro, Newi(ro), ok)
    /\ Return("error")

TakeOption(ok, stray) ==
    /\ Parsing /\ IsOption /\ Named(Arg) # 0
    /\ LET o == Named(Arg)
           ro == ros[o]
       IN  /\ (ro.argcnt # 0) = HasVal(ro) /\ ~MutTaken(ro, stray)
           /\ Accepts(ro, Newi(ro), ok)
           /\ mutro' = IF ro.mut # 0 /\ InMutro(ro)
                       THEN [mutro EXCEPT ![MutGrp(ro)] = o] ELSE mutro
           /\ optVal' = [optVal EXCEPT ![o] = Assigned(ro, Newi(ro), @)]
           /\ opts_found' = rd_bitvec_set(opts_found, o - 1)
           /\ argi' = Newi(ro) + 1
           /\ given' = Append(given, [opt |-> o, at |-> argi, newi |-> Newi(ro)])
    /\ UNCHANGED <<ros, argv, optRet>>

\* A required option is missing, which another one of its group makes up for.
Missing(o, stray) ==
    /\ ros[o].req /\ ~rd_bitvec_test(opts_found, o - 1)
    /\ ros[o].mut # 0 => ~MutSeen(ros[o], stray)

\* The end of rd_opt_parse().
Finish(stray) ==
    /\ optRet = "run" /\ (Parsing => AtWord)
    /\ Return(IF \E o \in DOMAIN ros : Missing(o, stray)
              THEN "Required option(s) missing" ELSE "ok")

OptNext ==
    \/ SkipEmpty \/ Help \/ UnknownOption
    \/ \E ok, stray \in BOOLEAN : RejectOption(ok, stray) \/ TakeOption(ok, stray)
    \/ \E stray \in BOOLEAN : Finish(stray)

OptSpec == OptInit /\ [][OptNext]_optVars
-----------------------------------------------------------------------------
\* When rd_opt_parse() succeeds, the arguments are accounted for: each in front
\* of *argip is empty, an option or the value of the option before it, and
\* *argip is the end or a word.  Two options of a group were given, or neither a
\* required option nor another of its group, only if the group is the one whose
\* index is outside of mutro[].  An option with a pointer that was given with
\* its value in an argument of its own has the value it was given last, and what
\* is behind the pointer of any other option was left alone.
SuccessAccountsForAll ==
    optRet = "ok" =>
        /\ \A i \in 1..argi - 1 :
            \/ argv[i].kind = "empty"
            \/ \E k \in DOMAIN given : i \in given[k].at..given[k].newi
        /\ \A k \in DOMAIN given : given[k].at <= given[k].newi
        /\ \A k, l \in DOMAIN given : k < l =>
            /\ given[k].newi < given[l].at
            /\ LET mut == ros[given[k].opt].mut
               IN  mut # 0 /\ ros[given[l].opt].mut = mut => mut = 4
        /\ argi = Len(argv) + 1 \/ argv[argi].kind = "word"
        /\ \A o \in DOMAIN ros :
            LET taken == {k \in DOMAIN given : given[k].opt = o}
            IN  /\ (ros[o].req /\ taken = {}) =>
                    \/ ros[o].mut = 4
                    \/ \E k \in DOMAIN given :
                        ros[o].mut # 0 /\ ros[given[k].opt].mut = ros[o].mut
                /\ (taken = {} \/ Parser(ros[o]) # "assign") => optVal[o] = NotGiven
                /\ (taken # {} /\ Parser(ros[o]) = "assign") =>
                    LET last == given[Max(taken)]
                    IN  last.newi # last.at =>
                        /\ ros[o].type \in {"str", "path"} => optVal[o] = last.newi
                        /\ ros[o].type = "int" => optVal[o] = Number(argv[last.newi])

\* rdopt.h: "Any options marked with the same RD_OPT_MUTn group will only allow
\* one of them to be seen in the argument list", for RD_OPT_MUT1 to RD_OPT_MUT4.
GroupsAreExclusive ==
    optRet = "ok" =>
        \A k, l \in DOMAIN given : given[k].opt # given[l].opt =>
            LET mut == ros[given[k].opt].mut
            IN  mut # 0 => ros[given[l].opt].mut # mut
=============================================================================
