\* A thread and a message through every form.
SPECIFICATION Spec
CONSTANTS
  None = None
  Keep = Keep
  Err = Err
  Bad = Bad
  ThreadBodies <- MCThreadBodies
  MessageBodies <- MCMessageBodies
  Uuids = {u1}
  Texts = {t1}
  Times = {"now", "then"}
INVARIANTS
  TypeOK
  PutBackChangesNothing
  EveryWayBuildsTheRow
  DefaultsAgree
  PatchReadersAgree
