------------------------------ MODULE Derivator ------------------------------
(***************************************************************************)
(* derivator/: an expression is parsed from a formula or loaded from a     *)
(* file, derived again and again, developed into a Taylor series,          *)
(* simplified and stored.                                                  *)
(***************************************************************************)
EXTENDS DerivMeaning

CONSTANTS Formulas,   \* the formulas that may be given
          Points,     \* values given to a variable
          Requests    \* orders asked of derive_nth and taylor_series_nth

VARIABLES expr,       \* the expression: tree, variables and derivatives; Gone if there is none
          last,       \* the last operation, what it was asked and its status
          made        \* the tree of the expression it made, or Nil

vars == <<formula, file, expr, last, made>>

Gone == [tree |-> Nil, variables |-> <<>>, derivatives |-> <<>>]
Exists == expr # Gone

(* An operation is called when the one before has returned.                *)
NoCall == [op |-> "none", n |-> 0, ret |-> "S_OK"]
Idle == last = NoCall
Done(op, n, ok) == last' = [op |-> op, n |-> n, ret |-> IF ok THEN "S_OK" ELSE "S_FAIL"]

Init == /\ formula \in Formulas
        /\ file = <<>>
        /\ expr = Gone
        /\ last = NoCall
        /\ made = Nil

-----------------------------------------------------------------------------

expression_parse_file ==
    /\ Idle /\ ~Exists
    /\ expr' = IF getG.ret = "S_OK" THEN [Gone EXCEPT !.tree = getG.node, !.variables = getG.vars]
               ELSE Gone
    /\ Done("parse", 0, getG.ret = "S_OK")
    /\ UNCHANGED <<formula, file, made>>

(* main writes the value through the pointer pvector_get gives it.         *)
SetValue(x) ==
    /\ Idle /\ expr.variables # <<>>
    /\ expr' = [expr EXCEPT !.variables[1].value = x]
    /\ Done("value", x, TRUE)
    /\ UNCHANGED <<formula, file, made>>

(* Faulty variant: every derivative is derived from the expression.        *)
Latest_tree(e) == e.tree

Latest(e) == IF e.derivatives = <<>> THEN e.tree ELSE e.derivatives[Len(e.derivatives)]

(* e with its derivatives up to the nth, or to the first that fails.       *)
RECURSIVE DerivedTo(_, _)
DerivedTo(e, n) ==
    LET d == tnode_derive(e.variables, Latest(e))
    IN  IF Len(e.derivatives) >= n \/ d = Nil THEN e
        ELSE DerivedTo([e EXCEPT !.derivatives = Append(@, d)], n)

expression_derive_nth(n) ==
    /\ Idle /\ Exists
    /\ expr' = DerivedTo(expr, n)
    /\ Done("derive", n, n >= 0 /\ Len(expr'.derivatives) >= n)
    /\ UNCHANGED <<formula, file, made>>

factorial(n) == FoldLeft(LAMBDA f, i : f * i, 1, [i \in 1..n |-> i])

(* Faulty variant: the coefficient is not divided by the factorial.        *)
TaylorTerm_undivided(e, i) ==
    Operator("*", Number(tnode_evaluate(e.variables, e.derivatives[i])),
                  Operator("^", Operator("-", Variable(1), Number(e.variables[1].value)), Number(i)))

TaylorTerm(e, i) ==
    Operator("*", Number(Evaluated("/", tnode_evaluate(e.variables, e.derivatives[i]), factorial(i) % P)),
                  Operator("^", Operator("-", Variable(1), Number(e.variables[1].value)), Number(i)))

TaylorTree(e, n) ==
    Operator("+", FoldLeft(LAMBDA t, i : Operator("+", t, TaylorTerm(e, i)),
                           Number(tnode_evaluate(e.variables, e.tree)), [i \in 1..n |-> i]),
                  Call("o", Operator("^", Variable(1), Number(n))))

(* Whether every value the series is made of can be had.                   *)
Evaluable(e, n) ==
    /\ Len(e.derivatives) >= n
    /\ e.variables # <<>>
    /\ \A t \in {e.tree} \cup {e.derivatives[i] : i \in 1..n} : tnode_evaluate(e.variables, t) # S_FAIL

expression_taylor_series_nth(n) ==
    /\ Idle /\ Exists
    /\ expr' = DerivedTo(expr, n)
    /\ made' = IF n >= 0 /\ Evaluable(expr', n) THEN tnode_simplify(expr.variables, TaylorTree(expr', n))
               ELSE Nil
    /\ Done("taylor", n, made' # Nil)
    /\ UNCHANGED <<formula, file>>

expression_simplify ==
    /\ Idle /\ Exists
    /\ made' = tnode_simplify(expr.variables, expr.tree)
    /\ Done("simplify", 0, made' # Nil)
    /\ UNCHANGED <<formula, file, expr>>

-----------------------------------------------------------------------------
(* The file.  The program may stop while it writes: the file is cut short. *)

expression_store ==
    /\ Idle /\ Exists
    /\ LET words == tree_serialize_node(expr.tree)
       IN  \E lost \in 0..Len(words) :
              /\ file' = SubSeq(words, 1, Len(words) - lost)
              /\ Done("store", lost, TRUE)
    /\ made' = expr.tree
    /\ UNCHANGED <<formula, expr>>

(* Into an expression that has just been made, as its caller does.         *)
Reload ==
    /\ last.op = "store"
    /\ expr' = [Gone EXCEPT !.tree = expression_load]
    /\ Done("load", last.n, expression_load # Nil)
    /\ UNCHANGED <<formula, file, made>>

expression_dtor ==
    /\ Idle /\ Exists
    /\ expr' = Gone
    /\ Done("dtor", 0, TRUE)
    /\ UNCHANGED <<formula, file, made>>

(* The caller is done with what it was given.                              *)
Return ==
    /\ ~Idle
    /\ last' = NoCall
    /\ file' = <<>>
    /\ made' = Nil
    /\ UNCHANGED <<formula, expr>>

Next ==
    \/ expression_parse_file
    \/ \E x \in Points : SetValue(x)
    \/ \E n \in Requests : expression_derive_nth(n) \/ expression_taylor_series_nth(n)
    \/ expression_simplify
    \/ expression_store \/ Reload
    \/ expression_dtor
    \/ Return

Spec == Init /\ [][Next]_vars

-----------------------------------------------------------------------------
(* Brackets that match, and names of which none begins another.  The       *)
(* parser does not look for the bracket behind an argument, and it takes a *)
(* name for a variable whose name begins with it.                          *)
Depth(k) == Quantify(1..k, LAMBDA i : TypeAt(i) = "(") - Quantify(1..k, LAMBDA i : TypeAt(i) = ")")
Balanced == Depth(Len(formula)) = 0 /\ \A k \in DOMAIN formula : Depth(k) >= 0
NamesApart == \A a, b \in Range(VariableNames) : IsPrefix(a, b) => a = b

(* A formula is accepted exactly where the grammar has a reading of it,    *)
(* and that reading is the tree: what binds tighter, what groups from the  *)
(* left, where a sign belongs to a number and which variable a name is.    *)
ParsedAsWritten ==
    last.op = "parse" /\ Balanced /\ NamesApart =>
        Readings("sum", 1, FormulaLength) = IF last.ret = "S_OK" THEN {expr.tree} ELSE {}

(* Wherever an expression has a value, what it has been simplified to has  *)
(* the same one.                                                           *)
SimplifiedKeepsValue ==
    last.op = "simplify" =>
        \A x \in Field :
            LET v == evaluate_tnode_at_x(Append(expr.variables, [value |-> 0]), expr.tree, x)
            IN  v # NaN => evaluate_tnode_at_x(Append(expr.variables, [value |-> 0]), made, x) = v

(* The trees that are derived on the way to the nth derivative.            *)
DerivedTrees(n) == {expr.tree} \cup {expr.derivatives[i] : i \in 1..(n - 1)}
OneVariable == Len(expr.variables) = 1

(* The derivatives asked for are there, and the nth has the value of the   *)
(* nth derivative wherever the expression has one, however many were there *)
(* before and whatever the value of the variable is: as long as no         *)
(* quotient has been derived.                                              *)
DerivativesRight ==
    /\ last.op = "derive" /\ last.n >= 0 /\ (\E x \in Field : Series(expr.tree, x) # Undefined) =>
            last.ret = "S_OK"
    /\ OneVariable /\ last.op \in {"derive", "taylor"} =>
        \A n \in DOMAIN expr.derivatives, x \in Field :
            LET s == Series(expr.tree, x)
            IN  (\A t \in DerivedTrees(n) : QuotientFree(t)) /\ s # Undefined =>
                    evaluate_tnode_at_x(expr.variables, expr.derivatives[n], x)
                        = Times(factorial(n), s[n])

(* Where the expression has a value at the variable's value, a series is   *)
(* made, and it is the Taylor polynomial there.                            *)
TaylorRight ==
    LET x0 == expr.variables[1].value
        s == Series(expr.tree, x0)
    IN  last.op = "taylor" /\ last.n >= 0 /\ OneVariable /\ s # Undefined
        /\ (\A t \in DerivedTrees(last.n) : QuotientFree(t)) =>
            /\ last.ret = "S_OK"
            /\ \A x \in Field :
                  evaluate_tnode_at_x(expr.variables, made, x)
                    = MapThenSumSet(LAMBDA i : s[i] * Power((x - x0) % P, i), 0..last.n) % P

(* A file that has been written to its end gives back the tree with six    *)
(* significant digits of every number in it, and so the tree itself if its *)
(* numbers have no more, provided that there is no variable in it; one     *)
(* that was cut short is refused, after whichever word it was cut.         *)
StoredComesBack ==
    last.op = "load" =>
        IF last.n = 0 /\ VariablesOf(made) = {} THEN expr.tree = ShortNumbers(made)
        ELSE last.ret = "S_FAIL"

(* The derivative of a quotient is what the comment above its rule says:   *)
(* (v * du/dx - u * dv/dx) / v^2.                                          *)
QuotientAsCommented ==
    expr.derivatives # <<>> /\ IsOperator(expr.tree, "/") =>
        LET u == expr.tree.left
            v == expr.tree.right
            At(t, x) == evaluate_tnode_at_x(expr.variables, t, x)
            du == tnode_derive(expr.variables, u)
            dv == tnode_derive(expr.variables, v)
        IN  \A x \in Field :
                At(v, x) \in Field \ {0} /\ {At(u, x), At(du, x), At(dv, x)} \subseteq Field =>
                    At(expr.derivatives[1], x)
                        = Over((At(v, x) * At(du, x) - At(u, x) * At(dv, x)) % P, At(v, x) * At(v, x))
=============================================================================
