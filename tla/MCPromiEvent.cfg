SPECIFICATION FairPromiSpec
CONSTANTS
  done = done
  doneThrows = doneThrows
  error = error
  errorThrows = errorThrows
  settled = settled
  settledThrows = settledThrows
  Listeners <- MCListeners
  Event <- MCEvent
  Throwing <- MCThrowing
  MaxOn = 4
INVARIANT ListenersAgree
PROPERTIES EventsInOrder SettledIsTold ImplementsAwait
