---------------------------- MODULE LangToolchain ----------------------------
(***************************************************************************)
(* The programs of lang/ one after the other, and then those of spu/: a    *)
(* text becomes a tree, the tree is simplified or not and translated to    *)
(* assembly, which is assembled and run.                                   *)
(***************************************************************************)
EXTENDS SpuToolchain, LangFrontend

CONSTANTS LangPrograms,    \* the trees of the programs that are written
          LangTexts,       \* further texts
          Cells, RunDepth  \* of LangMeaning

VARIABLES written,         \* the program that text stands for, or Nil
          tree_file,       \* the file that the last program has written
          stage            \* how far the text has come

langVars == <<written, text, tokens, tree_file, stage>>

Middleend == INSTANCE LangMiddleend
Backend == INSTANCE LangBackend
Meaning == INSTANCE LangMeaning

LangInit ==
    /\ written \in LangPrograms \cup {Nil}
    /\ text \in (IF written = Nil THEN LangTexts ELSE {Meaning!Statement(written)})
    /\ tokens = <<>> /\ tree_file = <<>> /\ stage = "text"
    /\ source = <<>> /\ asm_instr_arr = <<>> /\ labels_table = <<>>
    /\ bin_instr_arr = <<>> /\ n_instruction = 0 /\ second_compilation = FALSE /\ line = 1
    /\ result = "reading"
    /\ program = <<>> /\ ip = 0
    /\ registers = [r \in Register |-> 0] /\ RFLAGS = {}
    /\ stack = <<>> /\ call_stack = <<>>
    /\ ram = [a \in Addresses |-> Unwritten]
    /\ status = "unloaded"

Refuse == stage' = "refused" /\ UNCHANGED <<tree_file, source>>

lexer_parse_text ==
    LET lexemes == {text[k].type : k \in DOMAIN text}
    IN  /\ stage = "text"
        /\ \/ /\ "other" \in lexemes
              /\ Refuse /\ UNCHANGED tokens
           \/ /\ "other" \notin lexemes
              /\ tokens' = Lexed(text) /\ stage' = "tokens"
              /\ UNCHANGED <<tree_file, source>>
        /\ UNCHANGED <<written, text>>

expression_parse_lexer ==
    /\ stage = "tokens"
    /\ \E r \in {getG} :
          \/ ~Good(r) /\ Refuse
          \/ /\ Good(r)
             /\ tree_file' = Serialized(r.node) /\ stage' = "parsed"
             /\ UNCHANGED source
    /\ UNCHANGED <<written, text, tokens>>

expression_simplify ==
    /\ stage = "parsed"
    /\ tree_file' = Serialized(Middleend!tnode_simplify(Deserialized(tree_file)))
    /\ stage' = "simplified"
    /\ UNCHANGED <<written, text, tokens, source>>

backend_translator ==
    /\ stage \in {"parsed", "simplified"}
    /\ \E c \in {Backend!backend_translator(Deserialized(tree_file))} :
          \/ Backend!Failed(c) /\ Refuse
          \/ /\ ~Backend!Failed(c)
             /\ source' = c.asm /\ stage' = "translated"
             /\ UNCHANGED tree_file
    /\ UNCHANGED <<written, text, tokens>>

Compile ==
    /\ lexer_parse_text \/ expression_parse_lexer \/ expression_simplify \/ backend_translator
    /\ UNCHANGED <<asm_instr_arr, labels_table, bin_instr_arr, n_instruction,
                   second_compilation, line, result, vars>>

Finally == stage = "translated" /\ (Assemble \/ SPULoadBinary \/ Run) /\ UNCHANGED langVars

LangFinished ==
    /\ stage = "refused" \/ result = "rejected" \/ status \notin {"unloaded", "running"}
    /\ UNCHANGED <<langVars, toolVars>>

LangNext == Compile \/ Finally \/ LangFinished
LangSpec == LangInit /\ [][LangNext]_<<langVars, toolVars>>

-----------------------------------------------------------------------------
(* Properties *)

(* The front end reads back the tree of every program that is written with *)
(* the fewest parentheses: precedence, associativity, else and the calls   *)
(* mean what they mean to whoever wrote the text.                          *)
ReadAsWritten ==
    stage = "parsed" /\ written # Nil => Deserialized(tree_file) = written

(* The programs that the compiler is for: well formed, and if they raise   *)
(* to a power, then simplified, since only the middle end knows how.       *)
Powers == {k \in DOMAIN tree_file : IsOp(tree_file[k], "^")}
Proper == written # Nil /\ Meaning!WellFormed /\ Powers = {}

(* A proper program passes the compiler.                                   *)
ProperCompile == stage = "refused" => ~Proper

(* A well-formed program that has been compiled, with the middle end or    *)
(* without it, and has been run, leaves in every variable what the program *)
(* means; it fails where the program divides by zero or takes a root of a  *)
(* negative number, and nowhere else.                                      *)
Over == status \notin {"unloaded", "running"}
RunsAsMeant ==
    Over /\ Proper =>
        LET o == Meaning!Outcome
        IN  CASE o.how \in {"goes on", "returns"} ->
                    /\ status = "done"
                    /\ \A a \in Addresses : o.mem[a] \in {Meaning!Unknown, ram[a]}
              [] o.how = "fails" -> status = "failed"
              [] OTHER -> TRUE

(* Statements and calls take from the data stack all that they put there,  *)
(* so that no program grows it with its running time.                      *)
StackLeftEmpty ==
    status = "done" /\ Proper => stack = <<>>

(* A keyword that the front end accepts has its node in the tree.          *)
RECURSIVE Keywords(_)
Keywords(n) == IF n = Nil THEN 0
               ELSE Keywords(n.left) + Keywords(n.right)
                    + (IF n.kind = "operator" /\ n.op \in UnaryOps \cup NoArgFunctions THEN 1 ELSE 0)
KeywordsKept ==
    stage = "parsed" =>
        Keywords(Deserialized(tree_file)) =
            Cardinality({k \in DOMAIN tokens : tokens[k].type \in UnaryOps \cup NoArgFunctions})
=============================================================================
