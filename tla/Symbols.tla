-------------------------------- MODULE Symbols --------------------------------
(***************************************************************************)
(* The symbol interner: symbols.rs.  A name is interned under its          *)
(* lowercase spelling the first time it is used, by whichever thread gets  *)
(* the mutex; the symbol is its index from then on.                        *)
(***************************************************************************)
EXTENDS Integers, Sequences, SequencesExt

CONSTANTS
  Names,      \* spellings
  Canonical,  \* normalize_name: [Names -> Names]
  MaxSymbols  \* MAX_SYMBOL_NUMBER, GLOBAL included

GLOBAL_NAME == "__global__"

GLOBAL == 0

ASSUME NamesAssumption ==
  /\ GLOBAL_NAME \in Names /\ MaxSymbols \in Nat \ {0}
  /\ Canonical \in [Names -> Names]
  /\ \A name \in Names : Canonical[Canonical[name]] = Canonical[name]

VARIABLE names  \* id_to_normalize_name

Interned == {i - 1 : i \in DOMAIN names}

Known(name) == Canonical[name] \in ToSet(names)

(* A new name needs a free index; known names are found at the limit too. *)
CanIntern(name) == Known(name) \/ Len(names) < MaxSymbols

(* The names after `name' was interned, and its symbol among them. *)
WithName(name) == IF Known(name) THEN names ELSE Append(names, Canonical[name])

SymbolIn(interned, name) ==
  (CHOOSE i \in DOMAIN interned : interned[i] = Canonical[name]) - 1

Resolve(interned, symbol) == interned[symbol + 1]

InternInit == names = <<GLOBAL_NAME>>

Intern(name) == CanIntern(name) /\ names' = WithName(name)

================================================================================
