\* A buffer of two periods, samples with and without a duty; buffers of two sizes.
CONSTANTS
  BufferSize = 4
  PeriodSize = 2
  Samples = {0, 255}
  Sizes = {2, 3}
SPECIFICATION SoundSpec
INVARIANTS SilentWhenStopped PeriodsInStep CallbackSafe
PROPERTY PinFollows
