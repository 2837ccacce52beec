------------------------------- MODULE Inputs -------------------------------
(***************************************************************************)
(* What a call of the pipeline is given besides its source, as the command *)
(* line and the HTTP interface take it from words: starting values of      *)
(* registers (lib.rs) and the interpretation of the result (main.rs).      *)
(* What fails is {}.                                                       *)
(***************************************************************************)
CONSTANTS
    Reg,    \* the registers of reg.rs, by name
    Number  \* the words that are an i64

DefaultScalar == [kind |-> "scalar", register |-> "a0"]
DefaultArray  == [kind |-> "array", ptr_register |-> "a0", length_register |-> "a1",
                  elem_width |-> "4", signed |-> TRUE]

\* parse_register_input
ParseRegisterInput(a) ==
    {[register |-> r, value |-> v] :
        r \in ({a.name} \cap Reg) \ {"zero"}, v \in {a.value} \cap Number}

\* The first assignment that is refused refuses all of them.
ParseRegisterInputs(as) ==
    IF \A n \in DOMAIN as : ParseRegisterInput(as[n]) # {}
    THEN {[n \in DOMAIN as |-> CHOOSE i \in ParseRegisterInput(as[n]) : TRUE]}
    ELSE {}

ParseResultRegister(name) == {name} \cap Reg

\* unwrap_or
Or(option, default) == IF option = {} THEN default ELSE CHOOSE x \in option : TRUE

\* parse_api_result_request, for the `result` of a request, if it has one
ParseApiResult(result) ==
    IF result = {} THEN {DefaultScalar}
    ELSE LET r == CHOOSE x \in result : TRUE
         IN  IF r.kind = "scalar"
             THEN {[DefaultScalar EXCEPT !.register = reg] :
                      reg \in ParseResultRegister(Or(r.register, "a0"))}
             ELSE {[kind |-> "array", ptr_register |-> p, length_register |-> l,
                    elem_width |-> Or(r.elem_width, "4"), signed |-> Or(r.signed, TRUE)] :
                      p \in ParseResultRegister(Or(r.ptr_register, "a0")),
                      l \in ParseResultRegister(Or(r.length_register, "a1"))}
=============================================================================
