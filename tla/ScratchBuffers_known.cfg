CONSTANT BufferScripts <- KnownBufferScripts
SPECIFICATION BufferSpec
CHECK_DEADLOCK FALSE
INVARIANT BuffersKept
