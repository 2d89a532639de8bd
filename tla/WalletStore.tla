----------------------------- MODULE WalletStore -----------------------------
(***************************************************************************)
(* The command line wallet's key store: the list of keys a shell keeps in  *)
(* memory, the file it is saved to through a temporary file, and what the  *)
(* user was told.  One shell at a time; it may die at any step, and a      *)
(* write or a rename may fail.                                             *)
(*                                                                         *)
(* A label is the sequence of its parts: <<"addr", 2>> is "addr-2".  A key *)
(* stands for its address too.                                             *)
(***************************************************************************)
EXTENDS Integers, Sequences, FiniteSets, SequencesExt

CONSTANTS
  Key,         \* 1..n: keys are numbered as they turn up
  Label,       \* labels a user types
  Passphrase   \* passphrases of six characters or more

VARIABLES
  disk,         \* "path" and "tmp" -> what the file holds
  shell,        \* the running wallet: where it is, its Store, the answer it is to give
  generated,    \* history: keys made here
  imported,     \* history: keys imported here
  told,         \* history: keys the user was told the wallet has
  toldEncrypted \* history: passphrases the user was told the wallet needs

walletVars == <<disk, shell, generated, imported, told, toldEncrypted>>

NoFile == [is |-> "absent"]
Torn == [is |-> "torn"]
FileOf(keys, pass) == [is |-> "wallet", keys |-> keys, pass |-> pass]
Plain == {}   \* no passphrase

Closed == [pc |-> "closed"]
Prompt(keys, pass) == [pc |-> "prompt", keys |-> keys, pass |-> pass]

keysIn(keys) == {e.key : e \in ToSet(keys)}
labelsIn(keys) == {e.label : e \in ToSet(keys)}

-----------------------------------------------------------------------------
(***************************************************************************)
(* Opening and saving.                                                     *)
(***************************************************************************)

\* Seeded fault: a wallet that was opened with a passphrase is saved without.
opened_asPlain(file) == Prompt(file.keys, Plain)

opened(file) == Prompt(file.keys, file.pass)

\* loadStore: an encrypted file opens with its passphrase only.
loadStore(typed) ==
  /\ shell = Closed
  /\ \/ /\ disk["path"] = NoFile
        /\ shell' = Prompt(<<>>, Plain)
     \/ /\ disk["path"].is = "wallet"
        /\ disk["path"].pass \in {Plain, {typed}}
        /\ shell' = opened(disk["path"])
  /\ UNCHANGED <<disk, generated, imported, told, toldEncrypted>>

\* Seeded fault: the file is written in place.
written_inPlace == "path"

written == "tmp"

\* A write cut short, or a temporary file left behind: nobody reads it.
torn(d) == [d EXCEPT ![written] = Torn]
leftBehind == IF shell.pc = "rename" THEN [disk EXCEPT !["tmp"] = Torn] ELSE disk

\* A command has changed the Store; save comes next, then the answer.
saving(keys, pass, answer) ==
  shell' = [pc |-> "write", keys |-> keys, pass |-> pass, answer |-> answer]

\* What the failed command changed stays in memory.
failed == shell' = Prompt(shell.keys, shell.pass)

WriteFile ==
  /\ shell.pc = "write"
  /\ \/ /\ disk' = [disk EXCEPT ![written] = FileOf(shell.keys, shell.pass)]
        /\ shell' = [shell EXCEPT !.pc = "rename"]
     \/ /\ disk' \in {disk, torn(disk)}
        /\ failed
  /\ UNCHANGED <<generated, imported, told, toldEncrypted>>

Rename ==
  /\ shell.pc = "rename"
  /\ failed
  /\ \/ /\ disk' = [disk EXCEPT !["path"] = disk[written], !["tmp"] = NoFile]
        /\ told' = told \cup shell.answer
        /\ toldEncrypted' = IF shell.answer = {} THEN shell.pass ELSE toldEncrypted
     \/ disk' = leftBehind /\ UNCHANGED <<told, toldEncrypted>>
  /\ UNCHANGED <<generated, imported>>

save == WriteFile \/ Rename

\* The shell ends, or dies at any step: a write may be cut short.
Ends ==
  /\ shell # Closed
  /\ shell' = Closed
  /\ disk' \in IF shell.pc = "write" THEN {disk, torn(disk)} ELSE {leftBehind}
  /\ UNCHANGED <<generated, imported, told, toldEncrypted>>

-----------------------------------------------------------------------------
(***************************************************************************)
(* Commands that change the store.                                         *)
(***************************************************************************)

suffixed(label) == Append(label, Len(shell.keys) + 1)
known == generated \cup imported
nextKey == Cardinality(known) + 1
entry(label, key) == [label |-> label, key |-> key]

\* Seeded fault: a label is not looked up before it is given.
mayName_any(label) == TRUE

mayName(label) == label \notin labelsIn(shell.keys)

\* add: the key is in memory before it is saved.
add(label) ==
  /\ mayName(label)
  /\ nextKey \in Key
  /\ generated' = generated \cup {nextKey}
  /\ saving(Append(shell.keys, entry(label, nextKey)), shell.pass, {nextKey})
  /\ UNCHANGED <<disk, imported, told, toldEncrypted>>

\* new without a label numbers it; receive in an empty wallet makes "main".
cmdNew ==
  /\ shell.pc = "prompt"
  /\ \/ \E label \in Label \cup {suffixed(<<"addr">>)} : add(label)
     \/ shell.keys = <<>> /\ add(<<"main">>)

\* A label in use gets a number, which is not looked up again.
cmdImport(key, label) ==
  /\ shell.pc = "prompt"
  /\ key \in known \cup {nextKey}
  /\ key \notin keysIn(shell.keys)
  /\ saving(Append(shell.keys,
                   entry(IF label \in labelsIn(shell.keys) THEN suffixed(label) ELSE label, key)),
            shell.pass, {key})
  /\ imported' = imported \cup {key}
  /\ UNCHANGED <<disk, generated, told, toldEncrypted>>

\* The flag is set before the file is written.
cmdEncrypt(pass) ==
  /\ shell.pc = "prompt"
  /\ shell.pass = Plain /\ shell.keys # <<>>
  /\ saving(shell.keys, {pass}, {})
  /\ UNCHANGED <<disk, generated, imported, told, toldEncrypted>>

WalletInit ==
  /\ disk = [path |-> NoFile, tmp |-> NoFile]
  /\ shell = Closed
  /\ generated = {} /\ imported = {} /\ told = {} /\ toldEncrypted = Plain

WalletNext ==
  \/ cmdNew \/ save \/ Ends
  \/ \E key \in Key, label \in Label \cup {<<"imported">>} : cmdImport(key, label)
  \/ \E pass \in Passphrase : cmdEncrypt(pass) \/ loadStore(pass)

WalletSpec == WalletInit /\ [][WalletNext]_walletVars

-----------------------------------------------------------------------------
\* Every key the user was told of is in the file, wherever a shell died and whatever
\* failed, and no later command loses it.
KeysAreKept ==
  /\ disk["path"] # Torn
  /\ told # {} => disk["path"].is = "wallet" /\ told \subseteq keysIn(disk["path"].keys)

\* Once the user was told that the wallet is encrypted, it stays so, with that passphrase.
StaysEncrypted ==
  toldEncrypted # Plain => disk["path"].is = "wallet" /\ disk["path"].pass = toldEncrypted

\* A key is in the store once.  A label names one key, but for an import whose label
\* was taken and whose number was too: that entry comes after the one that find returns.
NamesFindKeys ==
  shell # Closed =>
    \A i, j \in DOMAIN shell.keys :
      i < j => /\ shell.keys[i].key # shell.keys[j].key
               /\ shell.keys[i].label = shell.keys[j].label => shell.keys[j].key \in imported
==============================================================================
