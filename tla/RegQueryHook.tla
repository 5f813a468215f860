---------------------------- MODULE RegQueryHook ----------------------------
(***************************************************************************)
(* The hook of RegQueryValueExW (reg_query_hook.cpp): the property lists   *)
(* of folders, in the registry, are answered with System.Size in them.     *)
(*                                                                         *)
(* A list is the sequence of the items between its semicolons; an item     *)
(* with the semicolon or the terminator after it is the unit of length.    *)
(* A caller asks for a value's length, with no buffer, and then for the    *)
(* value, with a buffer of that length, while others write the registry.   *)
(***************************************************************************)
EXTENDS Naturals, Sequences

CONSTANTS
  Absent,             \* no such value
  NoBuffer,           \* lpData is null
  Item,               \* items of the lists in the registry
  SizeItem,           \* items that contain System.Size, in any decoration
  MarkerItem,         \* items that contain DateModified, the markerKey
  OtherType,          \* what a value that is not REG_SZ is made of
  MaxItems,           \* bound on their number
  kBufCch,            \* length of the hook's own buffer
  Hint                \* what is added to a length it could not read

VARIABLES
  lpValueName, hKey,  \* the caller's value and the subkey of HKCR it is in
  value,              \* the value in the registry
  caller,             \* where the caller stands
  buffer,             \* the length of its buffer
  current             \* history: the hook told that length, and for this value

regQueryVars == <<lpValueName, hKey, value, caller, buffer, current>>

Target(subkey, mode, item, default) ==
  [classSubkey |-> subkey, mode |-> mode, toInject |-> item, synthDefault |-> default]

k_targets ==
  LET View == Target("Folder", "Append", "System.Size",
                     <<"prop:Name", "DateModified", "System.Size">>)
  IN  [TileInfo |-> Target("Folder", "Append", "System.Size",
                           <<"prop:*System.ItemType", "System.Size">>),
       ContentViewModeForBrowse |-> View,
       ContentViewModeForSearch |-> View,
       PreviewDetails |-> Target("Directory", "InsertAfterKey", "System.Size",
                                 <<"prop:*System.DateModified", "System.Size",
                                   "System.ItemFolderNameDisplay">>),
       StatusBar |-> Target("Directory", "InsertAtPos2", "~System.Size",
                            <<"prop:*System.DateModified", "~System.Size">>)]

List      == UNION {[1 .. n -> Item] : n \in 1 .. MaxItems}
NotString == UNION {[1 .. n -> {OtherType}] : n \in 1 .. MaxItems}
Value     == List \cup NotString \cup {Absent}

ASSUME RegQueryAssumption ==
  /\ {MaxItems, Hint} \subseteq Nat
  /\ kBufCch \in Nat \ {0}
  /\ NoBuffer \notin Nat
  /\ {"System.Size", "~System.Size"} \subseteq SizeItem
  /\ OtherType \notin Item /\ Absent \notin List \cup NotString

-----------------------------------------------------------------------------
has_system_size(v) == \E i \in DOMAIN v : v[i] \in SizeItem

(* With the item behind the n-th.                                          *)
Inserted(v, n, item) == SubSeq(v, 1, n) \o <<item>> \o SubSeq(v, n + 1, Len(v))

(* The first item that contains the marker, or the last.                   *)
MarkerAt(v) ==
  IF \E i \in DOMAIN v : v[i] \in MarkerItem
  THEN CHOOSE i \in DOMAIN v : v[i] \in MarkerItem /\ \A j \in 1 .. i - 1 : v[j] \notin MarkerItem
  ELSE Len(v)

InsertionPoint(v, t) == CASE t.mode = "Append" -> Len(v)
                          [] t.mode = "InsertAfterKey" -> MarkerAt(v)
                          [] t.mode = "InsertAtPos2" -> 1

InjectionAnyway(v, t) == Inserted(v, InsertionPoint(v, t), t.toInject)

apply_injection(v, t) ==
  IF has_system_size(v) THEN v ELSE Inserted(v, InsertionPoint(v, t), t.toInject)

(* What the registry answers, and what return_string_value does: the value *)
(* if the buffer has room, or its length.                                  *)
Answer(ret, length, v) == [ret |-> ret, length |-> length, value |-> v]

return_string_value(v, cb) ==
  CASE cb = NoBuffer -> Answer("success", Len(v), <<>>)
    [] cb # NoBuffer /\ cb < Len(v) -> Answer("more data", Len(v), <<>>)
    [] OTHER -> Answer("success", Len(v), v)

RegQueryValueEx(v, cb) ==
  IF v = Absent THEN Answer("not found", 0, <<>>) ELSE return_string_value(v, cb)

(* find_target and matches_class_subkey.                                   *)
Matches(name, key) == name \in DOMAIN k_targets /\ key = k_targets[name].classSubkey

(* The hooked function, unless it throws; its mutant leaves the calls that *)
(* ask for a length to the original.                                       *)
HookedFetchOnly(name, key, v, cb) ==
  IF ~Matches(name, key) \/ cb = NoBuffer \/ v \notin List
  THEN RegQueryValueEx(v, cb)
  ELSE return_string_value(apply_injection(v, k_targets[name]), cb)

hooked_RegQueryValueEx(name, key, v, cb) ==
  IF ~Matches(name, key) THEN RegQueryValueEx(v, cb)
  ELSE LET target == k_targets[name]
           own    == RegQueryValueEx(v, kBufCch)
       IN  CASE own.ret = "not found" -> return_string_value(target.synthDefault, cb)
             [] own.ret = "more data" -> Answer("more data", own.length + Hint, <<>>)
             [] own.ret = "success" /\ v \in NotString -> RegQueryValueEx(v, cb)
             [] OTHER -> return_string_value(apply_injection(v, target), cb)

-----------------------------------------------------------------------------
RegQueryInit ==
  /\ lpValueName = "TileInfo" /\ hKey = "Folder" /\ value = Absent
  /\ caller = "done" /\ buffer = 0 /\ current = FALSE

Ask == /\ caller = "done"
       /\ caller' = "asking"
       /\ lpValueName' \in DOMAIN k_targets \cup {"InfoTip"}
       /\ hKey' \in {"Folder", "Directory"}
       /\ UNCHANGED <<value, buffer, current>>

(* The caller takes the length it is told, with whatever code, and is done *)
(* when it has the value or knows that there is none.                      *)
Told(a, cb, byHook) ==
  /\ IF a.ret = "not found" \/ (a.ret = "success" /\ cb # NoBuffer)
     THEN caller' = "done" /\ buffer' = 0 /\ current' = FALSE
     ELSE caller' = "fetching" /\ buffer' = a.length /\ current' = byHook
  /\ UNCHANGED <<lpValueName, hKey, value>>

AskLength ==
  /\ caller = "asking"
  /\ Told(hooked_RegQueryValueEx(lpValueName, hKey, value, NoBuffer), NoBuffer, TRUE)

FetchValue ==
  /\ caller = "fetching"
  /\ Told(hooked_RegQueryValueEx(lpValueName, hKey, value, buffer), buffer, TRUE)

(* An exception in the hook: the handler passes the call to the original.  *)
HandlerPassesOn ==
  \/ caller = "asking" /\ Told(RegQueryValueEx(value, NoBuffer), NoBuffer, FALSE)
  \/ caller = "fetching" /\ Told(RegQueryValueEx(value, buffer), buffer, FALSE)

WriteValue == /\ value' \in Value \ {value}
              /\ current' = FALSE
              /\ UNCHANGED <<lpValueName, hKey, caller, buffer>>

RegQueryNext == Ask \/ AskLength \/ FetchValue \/ HandlerPassesOn \/ WriteValue

RegQuerySpec == RegQueryInit /\ [][RegQueryNext]_regQueryVars

-----------------------------------------------------------------------------
(* A value that the hook's own buffer does not take: ERROR_MORE_DATA.      *)
TooLong == Matches(lpValueName, hKey) /\ value # Absent /\ Len(value) > kBufCch

(* A caller that has been told a length fetches the value with it, unless  *)
(* the value was written meanwhile or an exception had the original tell   *)
(* the length: length and value are answered with the same insertions,     *)
(* also after ERROR_MORE_DATA and for absent values, but for a value of    *)
(* whatever type that is longer than the hook's buffer                     *)
(* (hooked_RegQueryValueEx_inner).                                         *)
TwoCallsAgree ==
  caller = "fetching" /\ current /\ ~TooLong =>
    hooked_RegQueryValueEx(lpValueName, hKey, value, buffer).ret = "success"

(* The list without its i-th item.                                         *)
WithoutItem(v, i) == SubSeq(v, 1, i - 1) \o SubSeq(v, i + 1, Len(v))

(* Whatever list the registry holds, System.Size is in the list that is    *)
(* answered, once if it was not there before, and all else is as it was    *)
(* and in its order; injected again, it does not change.  The lists for    *)
(* absent values have it already (apply_injection).                        *)
InjectionIsFaithful ==
  \A name \in DOMAIN k_targets :
    LET t == k_targets[name]
        w == apply_injection(value, t)
    IN  /\ apply_injection(t.synthDefault, t) = t.synthDefault
        /\ value \in List =>
             /\ has_system_size(w)
             /\ apply_injection(w, t) = w
             /\ IF has_system_size(value) THEN w = value
                ELSE \E i \in DOMAIN w : w[i] \in SizeItem /\ WithoutItem(w, i) = value
=============================================================================
