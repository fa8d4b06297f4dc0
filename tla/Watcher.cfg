SPECIFICATION Spec
CONSTANTS
  file1 = file1
  key1 = key1
  socket1 = socket1
  content = content
  start = start
  reload = reload
  call = call
  None = None
  Files = {file1}
  Keys = {key1}
  Runtimes = {socket1}
  Contents = {content}
  Start = start
  Reloads = {reload}
  Calls = {call}
  FirstKeys <- MCFirstKeys
  Changes <- MCChanges
  Capacity = 1
  MaxInputs = 3
CHECK_DEADLOCK FALSE
INVARIANTS
  ConsumerFollows
  CurrentFollowsDisk
PROPERTIES
  DeliversInOrder
