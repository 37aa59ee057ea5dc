------------------------------- MODULE Backend -------------------------------
(***************************************************************************)
(* What lib/secp256k1.rb does when it is required: it defines its methods  *)
(* in Ruby, requires the extension and replaces sixteen methods by those   *)
(* of the extension, one after the other, and only then sets @native.  A   *)
(* missing extension is rescued (LoadError); an extension that lacks one   *)
(* of the names is not (NameError): the methods replaced so far stay, and  *)
(* as the file counts as never loaded, the next require runs it again.     *)
(*                                                                         *)
(* Nothing waits for the loader: whoever can name the module may call it   *)
(* between any two of these steps, or after a load that failed.            *)
(*                                                                         *)
(* The four point methods are kept of the sixteen.  The field and scalar   *)
(* methods before them agree in both languages on every value that gets    *)
(* here (module Wrappers), so nobody can tell which of them is called.     *)
(***************************************************************************)
EXTENDS Naturals, Sequences, SequencesExt

Methods == <<"jp_double", "jp_add", "jp_neg", "scalar_multiply_ct">>
\* The order in which the file defines them in Ruby.
Definitions == <<"jp_double", "jp_add", "scalar_multiply_ct", "jp_neg">>

CONSTANT Extensions  \* the sets of methods an installed extension may have

ASSUME ExtensionsAssumption == Extensions \subseteq SUBSET Range(Methods)

VARIABLES
  installed,  \* the methods the extension has; none at all if it is not there
  replaced,   \* the methods that are the extension's now
  native,     \* @native
  allowed,    \* @allow_pure_ruby_ct
  loader      \* where the thread that requires the file is

backend == <<installed, replaced, native, allowed, loader>>

At(where, n) == [at |-> where, next |-> n]

LoaderInit ==
  /\ installed \in Extensions
  /\ replaced = {}
  /\ native = FALSE
  /\ allowed = FALSE
  /\ loader = At("replacing", 1)

\* require 'secp256k1_native' raises LoadError, which is rescued.
NoExtension ==
  /\ loader = At("replacing", 1)
  /\ installed = {}
  /\ loader' = At("ready", 0)
  /\ UNCHANGED <<installed, replaced, native, allowed>>

Replace ==
  /\ loader.at = "replacing"
  /\ loader.next <= Len(Methods)
  /\ Methods[loader.next] \in installed
  /\ replaced' = replaced \cup {Methods[loader.next]}
  /\ loader' = [loader EXCEPT !.next = @ + 1]
  /\ UNCHANGED <<installed, native, allowed>>

\* Secp256k1Native.method(m) raises NameError, which nothing rescues.
MethodMissing ==
  /\ loader.at = "replacing"
  /\ loader.next <= Len(Methods)
  /\ installed # {}
  /\ Methods[loader.next] \notin installed
  /\ loader' = At("failed", 0)
  /\ UNCHANGED <<installed, replaced, native, allowed>>

\* Mutant: @native is set before the methods are replaced.
MarkNativeEarly ==
  /\ loader.at = "replacing"
  /\ installed # {}
  /\ native' = TRUE
  /\ loader' = IF loader.next > Len(Methods) THEN At("ready", 0) ELSE loader
  /\ UNCHANGED <<installed, replaced, allowed>>

MarkNative ==
  /\ loader = At("replacing", Len(Methods) + 1)
  /\ native' = TRUE
  /\ loader' = At("ready", 0)
  /\ UNCHANGED <<installed, replaced, allowed>>

\* The file is required once more: its first lines reset the flags, one after
\* the other, ...
RequireAgain ==
  /\ loader.at = "failed"
  /\ native' = FALSE
  /\ loader' = At("defining", 0)
  /\ UNCHANGED <<installed, replaced, allowed>>

ResetAllowed ==
  /\ loader = At("defining", 0)
  /\ allowed' = FALSE
  /\ loader' = At("defining", 1)
  /\ UNCHANGED <<installed, replaced, native>>

\* ... and its definitions put the Ruby methods back before it gets to the
\* extension again.
Define ==
  /\ loader.at = "defining"
  /\ loader.next >= 1
  /\ replaced' = replaced \ {Definitions[loader.next]}
  /\ loader' = IF loader.next = Len(Definitions)
               THEN At("replacing", 1)
               ELSE [loader EXCEPT !.next = @ + 1]
  /\ UNCHANGED <<installed, native, allowed>>

allow_pure_ruby_ct ==
  /\ allowed' = TRUE
  /\ UNCHANGED <<installed, replaced, native, loader>>

Require ==
  \/ NoExtension \/ Replace \/ MethodMissing \/ MarkNative
  \/ RequireAgain \/ ResetAllowed \/ Define

\* native? promises that the extension is loaded and active: then none of the
\* methods is left in Ruby.  Everything that trusts native? rests on the flag
\* being set after the last replacement, and on a load that fails not setting
\* it.
NativeMeansAll == native => replaced = Range(Methods)

=============================================================================
